---- MODULE Spec2Model ----
(***************************************************************************)
(* libnvme NVMe-MI core: the generic submit pipeline and the Admin/MI      *)
(* command layer of mi.c on top of the MCTP transport of mi-mctp.c.        *)
(*                                                                         *)
(* One endpoint, one caller (the library is synchronous).  An API call is  *)
(* an action that runs to the first point where the library waits for the  *)
(* kernel or the device: sendmsg, poll, recvmsg.  The environment (kernel  *)
(* and device) chooses the outcome of each of these.                       *)
(*                                                                         *)
(* Frames are modelled by their lengths and by the header fields the code  *)
(* reads or writes.  A MIC value is modelled by what it is the CRC of: the *)
(* MIC of a received datagram is either the CRC of the bytes before it or  *)
(* not, and the code finds it by position, as it does in the iovecs.       *)
(***************************************************************************)
EXTENDS Integers, Sequences, FiniteSets, TLC

(***************************************************************************)
(* Program constants                                                       *)
(***************************************************************************)
MsgHdrLen == 4             \* sizeof(struct nvme_mi_msg_hdr)
MsgRespLen == 8            \* sizeof(struct nvme_mi_msg_resp)
MprMsgLen == 8             \* sizeof(struct nvme_mi_msg_resp_mpr)
MicLen == 4                \* sizeof(mic)
AdminReqHdrLen == 68       \* sizeof(struct nvme_mi_admin_req_hdr)
AdminRespHdrLen == 20      \* sizeof(struct nvme_mi_admin_resp_hdr)
MiReqHdrLen == 16          \* sizeof(struct nvme_mi_mi_req_hdr)
MiRespHdrLen == 8          \* sizeof(struct nvme_mi_mi_resp_hdr)
SubsysInfoLen == 32        \* sizeof(struct nvme_mi_read_nvm_ss_info)
CtrlListLen == 4096        \* sizeof(struct nvme_ctrl_list)
AdminMaxData == 4096       \* the dlen limit of NVMe-MI v1.2
xfer_size == 4096          \* the Get Log Page window
MCTP_TAG_OWNER == 8
MCTP_TAG_PREALLOC == 16
MCTP_TYPE_NVME == 4
MCTP_TYPE_MIC == 128
NVME_MI_MSGTYPE_NVME == 132
NVME_MI_RESP_MPR == 8
NVME_MI_ROR_REQ == 0
NVME_MI_ROR_RSP == 1
NVME_MI_MT_MI == 1
NVME_MI_MT_ADMIN == 2
mctp_timeout == 5000
default_timeout == 1000
NVME_ID_CTRL_LIST_MAX == 2047
MprtMaxWait == 65535       \* 0xffff, the largest MPRT

(***************************************************************************)
(* Bounds of the model                                                     *)
(***************************************************************************)
NumTags == 2               \* tags the kernel can hand out to this socket
MaxEps == 2                \* calls that create an endpoint
MaxCrcBytes == 2           \* bytes of a span given to the CRC engine
MaxScans == 2              \* controller list reads
MaxEintr == 1              \* EINTR returns of poll() in one transport call
MaxMpr == 1                \* More Processing Required responses in one call

VARIABLES
    pc,          \* "idle" | "send" | "poll" | "returned" | "crashed"
    op,          \* the API call in progress or just returned
    req, resp,   \* struct nvme_mi_req / struct nvme_mi_resp of the exchange
    xfer,        \* nvme_mi_admin_get_log: xfer_offset, cur_xfer_size, final
    tag,         \* nvme_mi_mctp_submit: tag
    timeout,     \* nvme_mi_mctp_submit: timeout (-1: wait forever)
    kernelTags,  \* tags the kernel holds allocated for the socket
    cnt,         \* what the transport call in progress (or the last) did
    io,          \* what the API call in progress (or the last) did
    log,         \* the exchanges of the API call that reached the transport
    dg,          \* the last datagram recvmsg returned
    ret,         \* return value and errno of the API call
    out,         \* what the caller sees written: lengths, result, buffer
    ep,          \* struct nvme_mi_ep
    prev,        \* how the call before this one ended, the tags it timed out with
    mi,          \* the root, its endpoints and their controllers
    crc          \* nvme_mi_crc32_update: the spans and the accumulator

\* the variables of an exchange
xvars == <<pc, op, req, resp, xfer, tag, timeout, kernelTags, cnt, io, log,
           dg, ret, out, ep, prev>>

vars == <<pc, op, req, resp, xfer, tag, timeout, kernelTags, cnt, io, log,
          dg, ret, out, ep, prev, mi, crc>>

Min(a, b) == IF a < b THEN a ELSE b

(***************************************************************************)
(* off_t and size_t arguments: 64-bit values hi * 2^30 + lo, 0 <= lo < 2^30 *)
(***************************************************************************)
B30 == 1024 * 1024 * 1024
Wide(hi, lo) == [hi |-> hi, lo |-> lo]
U32Max == Wide(3, B30 - 1)                  \* 0xffffffff
WideGt(a, b) == a.hi > b.hi \/ (a.hi = b.hi /\ a.lo > b.lo)
WideIsZero(a) == a.hi = 0 /\ a.lo = 0
WideMod4(a) == a.lo % 4
\* x & 0xffffffff, and the conversion of x to 32 bits
Low32(a) == (a.hi % 4) * B30 + a.lo
\* the value, for one that is no more than 0xffffffff
WideVal(a) == a.hi * B30 + a.lo

(***************************************************************************)
(* Frames                                                                  *)
(***************************************************************************)
\* req->mic as memset() leaves it
NoMic == [stamped |-> FALSE, hdr_len |-> 0, data_len |-> 0, flags |-> 0,
          dlen |-> 0, doff |-> 0, cdw10 |-> 0, cdw11 |-> 0]

ReqFrame(hl, dl, nmp, flags, dlen, doff, cdw10, cdw11) ==
    [hdr_len |-> hl, data_len |-> dl, nmp |-> nmp, flags |-> flags,
     dlen |-> dlen, doff |-> doff, cdw10 |-> cdw10, cdw11 |-> cdw11,
     mic |-> NoMic]

\* a MIC word: the CRC of the first n bytes of a datagram, or another value
CrcOfPrefix(n) == [crc_of |-> n]
OtherWord == [crc_of |-> 0 - 1]

\* has_data: resp->data points to a buffer
RespFrame(hl, dl, has_data) ==
    [hdr_len |-> hl, data_len |-> dl, has_data |-> has_data,
     mic |-> OtherWord, type |-> 0, nmp |-> 0, status |-> 0]

NoReq == ReqFrame(0, 0, 0, 0, 0, 0, 0, 0)
NoResp == RespFrame(0, 0, FALSE)
NoXfer == [xfer_offset |-> 0, cur_xfer_size |-> 0, final |-> FALSE]
NoDg == [len |-> 0 - 1, status |-> 0, nmp |-> 0, mprt |-> 0, micOk |-> FALSE]

(***************************************************************************)
(* CRC engine, as far as the pipeline needs it                             *)
(***************************************************************************)
\* nvme_mi_calc_req_mic: the MIC covers the header as it is now
nvme_mi_calc_req_mic(rq) ==
    [rq EXCEPT !.mic = [stamped |-> TRUE, hdr_len |-> rq.hdr_len,
                        data_len |-> rq.data_len, flags |-> rq.flags,
                        dlen |-> rq.dlen, doff |-> rq.doff,
                        cdw10 |-> rq.cdw10, cdw11 |-> rq.cdw11]]

\* a verification that accepts every MIC
nvme_mi_verify_resp_mic_accept(rs) == 0

\* nvme_mi_verify_resp_mic: 0 on a correct MIC, 1 otherwise.  The header and
\* data buffers hold the first hdr_len + data_len bytes of the datagram.
nvme_mi_verify_resp_mic(rs) ==
    IF rs.mic # CrcOfPrefix(rs.hdr_len + rs.data_len) THEN 1 ELSE 0

(***************************************************************************)
(* MCTP transport (mi-mctp.c)                                              *)
(***************************************************************************)
HasPrealloc(t) == (t \div MCTP_TAG_PREALLOC) % 2 = 1
TagNumber(t) == t % MCTP_TAG_OWNER

\* nvme_mi_mctp_tag_alloc: what the call returns with the kernel holding kt:
\* the tag the SIOCMCTPALLOCTAG ioctl allocated (tags are interchangeable:
\* the lowest free one), and MCTP_TAG_OWNER when the ioctl fails, as it does
\* when the kernel has no tag left
nvme_mi_mctp_tag_alloc(kt) ==
    LET free == (0 .. NumTags - 1) \ kt
    IN  IF free = {} THEN MCTP_TAG_OWNER
        ELSE MCTP_TAG_PREALLOC + MCTP_TAG_OWNER
             + (CHOOSE u \in free : \A w \in free : u <= w)

\* the kernel's tags after the allocation returned t
KernelAfterAlloc(kt, t) == IF HasPrealloc(t) THEN kt \cup {TagNumber(t)} ELSE kt

\* a drop that leaves the tag with the kernel
nvme_mi_mctp_tag_drop_skip(kt, t) == kt

\* nvme_mi_mctp_tag_drop: the kernel's tags after the call
nvme_mi_mctp_tag_drop(kt, t) ==
    IF ~HasPrealloc(t) THEN kt ELSE kt \ {TagNumber(t)}

\* the word at byte offset pos of the datagram d, type byte restored
WordAt(d, pos) ==
    IF pos = d.len + 1 - MicLen /\ d.micOk THEN CrcOfPrefix(pos) ELSE OtherWord

\* nvme_mi_mctp_resp_is_mpr: "yes", "no", or "fault" when the MIC is read
\* through a NULL resp->data.  stale: what a read of a zero-length data
\* buffer finds there ("equal" to the CRC or not)
nvme_mi_mctp_resp_is_mpr(rs, len, d, stale) ==
    IF len # MprMsgLen + MicLen THEN "no"
    ELSE IF d.status # NVME_MI_RESP_MPR THEN "no"
    ELSE IF rs.hdr_len > MprMsgLen
         THEN (IF WordAt(d, MprMsgLen) = CrcOfPrefix(MprMsgLen) THEN "yes" ELSE "no")
    ELSE IF ~rs.has_data THEN "fault"
    ELSE IF rs.data_len >= MicLen
         THEN (IF WordAt(d, rs.hdr_len) = CrcOfPrefix(MprMsgLen) THEN "yes" ELSE "no")
    ELSE (IF stale = "equal" THEN "yes" ELSE "no")

\* a wait that is not clamped to the endpoint's maximum
MprTimeout_noclamp(d, e) ==
    IF d.mprt * 100 = 0
    THEN (IF e.timeout # 0 THEN e.timeout ELSE MprtMaxWait)
    ELSE d.mprt * 100

\* the wait after a More Processing Required response (lines 376-385)
MprTimeout(d, e) ==
    LET t0 == d.mprt * 100
        t1 == IF t0 = 0
              THEN (IF e.timeout # 0 THEN e.timeout ELSE MprtMaxWait)
              ELSE t0
    IN  IF e.mprt_max # 0 /\ t1 > e.mprt_max THEN e.mprt_max ELSE t1

\* the header bytes the datagram left in resp->hdr, type byte re-added
WithHeader(rs, d) ==
    [rs EXCEPT !.type = MCTP_TYPE_NVME + MCTP_TYPE_MIC,
               !.nmp = d.nmp, !.status = d.status]

\* a reconciliation that leaves data_len alone when the header is cut short
nvme_mi_mctp_reconcile_keepdata(rs, len, d) ==
    IF len = rs.hdr_len + rs.data_len + MicLen
    THEN [rs EXCEPT !.mic = WordAt(d, rs.hdr_len + rs.data_len)]
    ELSE IF len < rs.hdr_len + MicLen
    THEN [rs EXCEPT !.hdr_len = len - MicLen,
                    !.mic = WordAt(d, len - MicLen)]
    ELSE [rs EXCEPT !.data_len = len - rs.hdr_len - MicLen,
                    !.mic = WordAt(d, rs.hdr_len + (len - rs.hdr_len - MicLen))]

\* lines 389-414: find the MIC and the split between header and data
nvme_mi_mctp_reconcile(rs, len, d) ==
    IF len = rs.hdr_len + rs.data_len + MicLen
    THEN [rs EXCEPT !.mic = WordAt(d, rs.hdr_len + rs.data_len)]
    ELSE IF len < rs.hdr_len + MicLen
    THEN [rs EXCEPT !.hdr_len = len - MicLen, !.data_len = 0,
                    !.mic = WordAt(d, len - MicLen)]
    ELSE [rs EXCEPT !.data_len = len - rs.hdr_len - MicLen,
                    !.mic = WordAt(d, rs.hdr_len + (len - rs.hdr_len - MicLen))]

TOut(rc, e, rs) == [next |-> "out", rc |-> rc, errno |-> e, resp |-> rs, timeout |-> 0]

\* nvme_mi_mctp_submit from recvmsg on (lines 325-416); d.len is what
\* recvmsg returned
nvme_mi_mctp_recv(rs, d, stale, e) ==
    LET len == d.len + 1
        rh == WithHeader(rs, d)
        mpr == nvme_mi_mctp_resp_is_mpr(rh, len, d, stale)
    IN  IF d.len < 0 THEN TOut(0 - 1, "ENOTCONN", rs)
        ELSE IF d.len = 0 THEN TOut(0 - 1, "EIO", rs)
        ELSE IF len < 8 + MicLen THEN TOut(0 - 1, "EPROTO", rh)
        ELSE IF len % 4 # 0 THEN TOut(0 - 1, "EPROTO", rh)
        ELSE IF mpr = "fault"
             THEN [next |-> "crash", rc |-> 0, errno |-> "unset", resp |-> rh,
                   timeout |-> 0]
        ELSE IF mpr = "yes"
             THEN [next |-> "retry", rc |-> 0, errno |-> "unset", resp |-> rh,
                   timeout |-> MprTimeout(d, e)]
        ELSE TOut(0, "unset", nvme_mi_mctp_reconcile(rh, len, d))

(***************************************************************************)
(* Generic submit pipeline (nvme_mi_submit)                                *)
(***************************************************************************)
\* the checks without the one of the response data length
nvme_mi_submit_checks_lax(rq, rs) ==
    /\ ~(rq.hdr_len < MsgHdrLen)
    /\ rq.hdr_len % 4 = 0
    /\ rq.data_len % 4 = 0
    /\ ~(rs.hdr_len < MsgHdrLen)
    /\ rs.hdr_len % 4 = 0

\* lines 192-220: TRUE when the six length checks pass
nvme_mi_submit_checks(rq, rs) ==
    /\ ~(rq.hdr_len < MsgHdrLen)
    /\ rq.hdr_len % 4 = 0
    /\ rq.data_len % 4 = 0
    /\ ~(rs.hdr_len < MsgHdrLen)
    /\ rs.hdr_len % 4 = 0
    /\ rs.data_len % 4 = 0

SRet(rc, e) == [rc |-> rc, errno |-> e]

\* response checks without the one of the command slot
nvme_mi_submit_resp_noslot(rq, rs) ==
    IF nvme_mi_verify_resp_mic(rs) # 0
    THEN SRet(nvme_mi_verify_resp_mic(rs), "unset")
    ELSE IF rs.hdr_len < MsgHdrLen THEN SRet(0 - 1, "EPROTO")
    ELSE IF rs.type # NVME_MI_MSGTYPE_NVME THEN SRet(0 - 1, "EPROTO")
    ELSE IF (rs.nmp \div 128) % 2 = 0 THEN SRet(0 - 1, "EIO")
    ELSE SRet(0, "unset")

\* lines 231-270: after the transport returned 0
nvme_mi_submit_resp(rq, rs) ==
    IF nvme_mi_verify_resp_mic(rs) # 0
    THEN SRet(nvme_mi_verify_resp_mic(rs), "unset")
    ELSE IF rs.hdr_len < MsgHdrLen THEN SRet(0 - 1, "EPROTO")
    ELSE IF rs.type # NVME_MI_MSGTYPE_NVME THEN SRet(0 - 1, "EPROTO")
    ELSE IF (rs.nmp \div 128) % 2 = 0 THEN SRet(0 - 1, "EIO")
    ELSE IF rs.nmp % 2 # rq.nmp % 2 THEN SRet(0 - 1, "EIO")
    ELSE SRet(0, "unset")

(***************************************************************************)
(* API calls: arguments, outputs, and the steps of a call                  *)
(***************************************************************************)
\* The device's part in a Get Log Page call: "any" reply to each exchange,
\* or every window in "full", or the first k-1 windows in full and the k-th
\* with r bytes ("short"), status 0 and a valid MIC throughout
AnyReply == [mode |-> "any", k |-> 0, r |-> 0]

NoOp == [kind |-> "none", args_ok |-> TRUE, req_size |-> 0, resp_size |-> 0,
         offset |-> Wide(0, 0), size |-> Wide(0, 0), rae |-> FALSE, want_result |-> FALSE,
         rq_hdr |-> 0, rs_hdr |-> 0, device |-> AnyReply]

\* len: the caller's length (args->len, args->data_len, *resp_data_size);
\* result: *args->result was written; buf: the <<offset, bytes>> windows of
\* args->log that hold accepted log data
Out(len) == [len |-> len, result |-> FALSE, buf |-> <<>>]

RetStep(rc, e, o) ==
    [next |-> "return", rc |-> rc, errno |-> e, out |-> o,
     req |-> NoReq, resp |-> NoResp, xfer |-> NoXfer]

ExchStep(rq, rs, x, o) ==
    [next |-> "exchange", rc |-> 0, errno |-> "unset", out |-> o,
     req |-> rq, resp |-> rs, xfer |-> x]

AdminNmp == NVME_MI_ROR_REQ * 128 + NVME_MI_MT_ADMIN * 8
MiNmp == NVME_MI_ROR_REQ * 128 + NVME_MI_MT_MI * 8

\* nvme_mi_admin_init_req: a zeroed header, command slot 0
nvme_mi_admin_init_req == ReqFrame(AdminReqHdrLen, 0, AdminNmp, 0, 0, 0, 0, 0)

\* nvme_mi_admin_init_resp
nvme_mi_admin_init_resp == RespFrame(AdminRespHdrLen, 0, FALSE)

\* nvme_mi_admin_xfer without the check of lines 333-336
nvme_mi_admin_xfer_req_bidir(o, oc) ==
    IF o.resp_size > AdminMaxData THEN RetStep(0 - 1, "EINVAL", oc)
    ELSE IF WideGt(o.offset, U32Max) THEN RetStep(0 - 1, "EINVAL", oc)
    ELSE IF WideMod4(o.offset) # 0 THEN RetStep(0 - 1, "EINVAL", oc)
    ELSE IF o.resp_size = 0 /\ ~WideIsZero(o.offset) THEN RetStep(0 - 1, "EINVAL", oc)
    ELSE LET rq0 == ReqFrame(AdminReqHdrLen, o.req_size, AdminNmp, 0, 0, 0, 0, 0)
             rs == RespFrame(AdminRespHdrLen, o.resp_size, TRUE)
             rq2 == [nvme_mi_calc_req_mic(rq0) EXCEPT
                        !.flags = 3, !.dlen = rs.data_len,
                        !.doff = Low32(o.offset)]
         IN  ExchStep(rq2, rs, NoXfer, oc)

\* nvme_mi_admin_xfer up to its call of nvme_mi_submit (lines 314-365)
nvme_mi_admin_xfer_req(o, oc) ==
    IF o.resp_size > AdminMaxData THEN RetStep(0 - 1, "EINVAL", oc)
    ELSE IF WideGt(o.offset, U32Max) THEN RetStep(0 - 1, "EINVAL", oc)
    ELSE IF WideMod4(o.offset) # 0 THEN RetStep(0 - 1, "EINVAL", oc)
    ELSE IF o.req_size # 0 /\ o.resp_size # 0 THEN RetStep(0 - 1, "EINVAL", oc)
    ELSE IF o.resp_size = 0 /\ ~WideIsZero(o.offset) THEN RetStep(0 - 1, "EINVAL", oc)
    ELSE LET rq0 == ReqFrame(AdminReqHdrLen, o.req_size, AdminNmp, 0, 0, 0, 0, 0)
             rq1 == nvme_mi_calc_req_mic(rq0)
             rs == RespFrame(AdminRespHdrLen, o.resp_size, TRUE)
             rq2 == [rq1 EXCEPT !.flags = 3,
                                !.dlen = rs.data_len,
                                !.doff = Low32(o.offset)]
         IN  ExchStep(rq2, rs, NoXfer, oc)

\* nvme_mi_admin_xfer after nvme_mi_submit returned 0 (lines 369-371)
nvme_mi_admin_xfer_resp(o, rs, oc) == RetStep(0, "unset", [oc EXCEPT !.len = rs.data_len])

\* nvme_mi_admin_identify_partial up to nvme_mi_submit (lines 384-413)
nvme_mi_admin_identify_req(o, oc) ==
    IF ~o.args_ok THEN RetStep(0 - 1, "EINVAL", oc)
    ELSE IF WideIsZero(o.size) \/ WideGt(o.size, U32Max)
    THEN RetStep(0 - 1, "EINVAL", oc)
    ELSE LET rq0 == [nvme_mi_admin_init_req EXCEPT
                        !.dlen = Low32(o.size), !.flags = 1]
             rq1 == IF ~WideIsZero(o.offset)
                    THEN [rq0 EXCEPT !.flags = 3, !.doff = Low32(o.offset)]
                    ELSE rq0
             rs == [nvme_mi_admin_init_resp EXCEPT
                        !.has_data = TRUE, !.data_len = WideVal(o.size)]
         IN  ExchStep(nvme_mi_calc_req_mic(rq1), rs, NoXfer, oc)

\* nvme_mi_admin_identify_partial without the check of lines 425-428
nvme_mi_admin_identify_resp_partial(o, rs, oc) ==
    IF rs.status # 0 THEN RetStep(rs.status, "unset", oc)
    ELSE RetStep(0, "unset", IF o.want_result THEN [oc EXCEPT !.result = TRUE] ELSE oc)

\* nvme_mi_admin_identify_partial after nvme_mi_submit returned 0
\* (lines 417-430)
nvme_mi_admin_identify_resp(o, rs, oc) ==
    IF rs.status # 0 THEN RetStep(rs.status, "unset", oc)
    ELSE LET o1 == IF o.want_result THEN [oc EXCEPT !.result = TRUE] ELSE oc
         IN  IF rs.data_len # WideVal(o.size)
             THEN RetStep(0 - 1, "EPROTO", o1)
             ELSE RetStep(0, "unset", o1)

\* a request that carries the caller's rae in every window
get_log_req_callers_rae(o, x, oc) ==
    LET len == x.cur_xfer_size
        offset == x.xfer_offset
        ndw == (len \div 4) - 1
        raebit == IF o.rae THEN 1 ELSE 0
        rq0 == [nvme_mi_admin_init_req EXCEPT
                   !.cdw10 = (ndw % 65536) * 65536 + raebit * 32768,
                   !.cdw11 = ndw \div 65536,
                   !.flags = 1,
                   !.dlen = len]
        rq1 == IF offset # 0
               THEN [rq0 EXCEPT !.flags = 3, !.doff = offset]
               ELSE rq0
        rs == [nvme_mi_admin_init_resp EXCEPT !.has_data = TRUE, !.data_len = len]
    IN  IF len = 0 \/ len > AdminMaxData \/ len < 4
        THEN RetStep(0 - 1, "EINVAL", oc)
        ELSE IF offset < 0 \/ offset >= len
        THEN RetStep(0 - 1, "EINVAL", oc)
        ELSE ExchStep(nvme_mi_calc_req_mic(rq1), rs, x, oc)

\* __nvme_mi_admin_get_log up to nvme_mi_submit (lines 449-488); o.resp_size
\* is args->len, x the window
get_log_req(o, x, oc) ==
    LET len == x.cur_xfer_size
        offset == x.xfer_offset
        ndw == (len \div 4) - 1
        raebit == IF ~x.final \/ o.rae THEN 1 ELSE 0
        rq0 == [nvme_mi_admin_init_req EXCEPT
                   !.cdw10 = (ndw % 65536) * 65536 + raebit * 32768,
                   !.cdw11 = ndw \div 65536,
                   !.flags = 1,
                   !.dlen = len]
        rq1 == IF offset # 0
               THEN [rq0 EXCEPT !.flags = 3, !.doff = offset]
               ELSE rq0
        rs == [nvme_mi_admin_init_resp EXCEPT !.has_data = TRUE, !.data_len = len]
    IN  IF len = 0 \/ len > AdminMaxData \/ len < 4
        THEN RetStep(0 - 1, "EINVAL", oc)
        ELSE IF offset < 0 \/ offset >= len
        THEN RetStep(0 - 1, "EINVAL", oc)
        ELSE ExchStep(nvme_mi_calc_req_mic(rq1), rs, x, oc)

\* nvme_mi_admin_get_log: the loop from its head with xfer_offset = xo
\* (lines 511-537)
nvme_mi_admin_get_log_loop(o, xo, oc) ==
    IF xo < o.resp_size
    THEN LET cur == IF xo + xfer_size > o.resp_size
                    THEN o.resp_size - xo ELSE xfer_size
             final == xo + cur >= o.resp_size
         IN  get_log_req(o, [xfer_offset |-> xo, cur_xfer_size |-> cur,
                             final |-> final], oc)
    ELSE RetStep(0, "unset", [oc EXCEPT !.len = xo])

\* nvme_mi_admin_get_log (lines 506-511)
nvme_mi_admin_get_log_req(o, oc) ==
    IF ~o.args_ok THEN RetStep(0 - 1, "EINVAL", oc)
    ELSE nvme_mi_admin_get_log_loop(o, 0, oc)

\* __nvme_mi_admin_get_log after nvme_mi_submit returned 0 (lines 492-497),
\* and the rest of the loop body (lines 524-531)
nvme_mi_admin_get_log_resp(o, x, rs, oc) ==
    IF rs.status # 0 THEN RetStep(rs.status, "unset", oc)
    ELSE LET tmp == rs.data_len
             xo == x.xfer_offset + tmp
             o1 == [oc EXCEPT !.buf = Append(@, <<x.xfer_offset, tmp>>)]
         IN  IF tmp # x.cur_xfer_size
             THEN RetStep(0, "unset", [o1 EXCEPT !.len = xo])
             ELSE nvme_mi_admin_get_log_loop(o, xo, o1)

\* nvme_mi_admin_security_send (lines 550-579, 583-589)
nvme_mi_admin_security_send_req(o, oc) ==
    IF ~o.args_ok THEN RetStep(0 - 1, "EINVAL", oc)
    ELSE IF o.req_size > AdminMaxData THEN RetStep(0 - 1, "EINVAL", oc)
    ELSE LET rq == [nvme_mi_admin_init_req EXCEPT
                       !.cdw11 = o.req_size, !.flags = 1,
                       !.dlen = o.req_size,
                       !.data_len = o.req_size]
         IN  ExchStep(nvme_mi_calc_req_mic(rq), nvme_mi_admin_init_resp, NoXfer, oc)

nvme_mi_admin_security_send_resp(o, rs, oc) ==
    IF rs.status # 0 THEN RetStep(rs.status, "unset", oc)
    ELSE RetStep(0, "unset", IF o.want_result THEN [oc EXCEPT !.result = TRUE] ELSE oc)

\* nvme_mi_admin_security_recv (lines 602-631, 635-643)
nvme_mi_admin_security_recv_req(o, oc) ==
    IF ~o.args_ok THEN RetStep(0 - 1, "EINVAL", oc)
    ELSE IF o.resp_size > AdminMaxData THEN RetStep(0 - 1, "EINVAL", oc)
    ELSE LET rq == [nvme_mi_admin_init_req EXCEPT
                       !.cdw11 = o.resp_size, !.flags = 1,
                       !.dlen = o.resp_size]
             rs == [nvme_mi_admin_init_resp EXCEPT
                       !.has_data = TRUE, !.data_len = o.resp_size]
         IN  ExchStep(nvme_mi_calc_req_mic(rq), rs, NoXfer, oc)

nvme_mi_admin_security_recv_resp(o, rs, oc) ==
    IF rs.status # 0 THEN RetStep(rs.status, "unset", oc)
    ELSE LET o1 == IF o.want_result THEN [oc EXCEPT !.result = TRUE] ELSE oc
         IN  RetStep(0, "unset", [o1 EXCEPT !.len = rs.data_len])

\* nvme_mi_read_data (lines 655-672, 676-681); o.resp_size is *data_len
nvme_mi_read_data_req(o, oc) ==
    ExchStep(ReqFrame(MiReqHdrLen, 0, MiNmp, 0, 0, 0, 0, 0),
             RespFrame(MiRespHdrLen, o.resp_size, TRUE), NoXfer, oc)

\* nvme_mi_read_data without the check of lines 676-677
nvme_mi_read_data_resp_nostatus(o, rs, oc) ==
    RetStep(0, "unset", [oc EXCEPT !.len = rs.data_len])

nvme_mi_read_data_resp(o, rs, oc) ==
    IF rs.status # 0 THEN RetStep(rs.status, "unset", oc)
    ELSE RetStep(0, "unset", [oc EXCEPT !.len = rs.data_len])

\* nvme_mi_mi_read_mi_data_subsys after nvme_mi_read_data (lines 695-707)
nvme_mi_mi_read_mi_data_subsys_resp(o, rs, oc) ==
    LET r == nvme_mi_read_data_resp(o, rs, oc)
    IN  IF r.rc # 0 THEN r
        ELSE IF r.out.len # SubsysInfoLen THEN RetStep(0 - 1, "EPROTO", r.out)
        ELSE r

\* nvme_mi_mi_read_mi_data_ctrl_list after nvme_mi_read_data (lines 743-746)
nvme_mi_mi_read_mi_data_ctrl_list_resp(o, rs, oc) == nvme_mi_read_data_resp(o, rs, oc)

\* nvme_mi_mi_config_get / nvme_mi_mi_config_set (lines 825-840, 862-877)
nvme_mi_mi_config_req(o, oc) ==
    ExchStep(ReqFrame(MiReqHdrLen, 0, MiNmp, 0, 0, 0, 0, 0),
             RespFrame(MiRespHdrLen, 0, FALSE), NoXfer, oc)

\* lines 844-851: *nmresp is written on status 0
nvme_mi_mi_config_get_resp(o, rs, oc) ==
    IF rs.status # 0 THEN RetStep(rs.status, "unset", oc)
    ELSE RetStep(0, "unset", [oc EXCEPT !.result = TRUE])

\* lines 881-884
nvme_mi_mi_config_set_resp(o, rs, oc) ==
    IF rs.status # 0 THEN RetStep(rs.status, "unset", oc)
    ELSE RetStep(0, "unset", oc)

\* a caller of nvme_mi_submit with frames of its own
direct_submit_req(o, oc) ==
    ExchStep(ReqFrame(o.rq_hdr, o.req_size, MiNmp, 0, 0, 0, 0, 0),
             RespFrame(o.rs_hdr, o.resp_size, o.resp_size > 0), NoXfer, oc)

\* the call up to its first nvme_mi_submit
OpRequest(o, oc) ==
    CASE o.kind = "nvme_mi_submit" -> direct_submit_req(o, oc)
      [] o.kind = "nvme_mi_admin_xfer" -> nvme_mi_admin_xfer_req(o, oc)
      [] o.kind = "nvme_mi_admin_identify_partial" -> nvme_mi_admin_identify_req(o, oc)
      [] o.kind = "nvme_mi_admin_get_log" -> nvme_mi_admin_get_log_req(o, oc)
      [] o.kind = "nvme_mi_admin_security_send" -> nvme_mi_admin_security_send_req(o, oc)
      [] o.kind = "nvme_mi_admin_security_recv" -> nvme_mi_admin_security_recv_req(o, oc)
      [] o.kind = "nvme_mi_mi_read_mi_data_subsys" -> nvme_mi_read_data_req(o, oc)
      [] o.kind = "nvme_mi_mi_read_mi_data_ctrl_list" -> nvme_mi_read_data_req(o, oc)
      [] o.kind = "nvme_mi_mi_config_get" -> nvme_mi_mi_config_req(o, oc)
      [] o.kind = "nvme_mi_mi_config_set" -> nvme_mi_mi_config_req(o, oc)

\* the call from the return of nvme_mi_submit with 0
OpResponse(o, x, rs, oc) ==
    CASE o.kind = "nvme_mi_submit" -> RetStep(0, "unset", oc)
      [] o.kind = "nvme_mi_admin_xfer" -> nvme_mi_admin_xfer_resp(o, rs, oc)
      [] o.kind = "nvme_mi_admin_identify_partial" -> nvme_mi_admin_identify_resp(o, rs, oc)
      [] o.kind = "nvme_mi_admin_get_log" -> nvme_mi_admin_get_log_resp(o, x, rs, oc)
      [] o.kind = "nvme_mi_admin_security_send" -> nvme_mi_admin_security_send_resp(o, rs, oc)
      [] o.kind = "nvme_mi_admin_security_recv" -> nvme_mi_admin_security_recv_resp(o, rs, oc)
      [] o.kind = "nvme_mi_mi_read_mi_data_subsys" -> nvme_mi_mi_read_mi_data_subsys_resp(o, rs, oc)
      [] o.kind = "nvme_mi_mi_read_mi_data_ctrl_list" -> nvme_mi_mi_read_mi_data_ctrl_list_resp(o, rs, oc)
      [] o.kind = "nvme_mi_mi_config_get" -> nvme_mi_mi_config_get_resp(o, rs, oc)
      [] o.kind = "nvme_mi_mi_config_set" -> nvme_mi_mi_config_set_resp(o, rs, oc)

\* nvme_mi_submit without the MIC computation of lines 222-223
nvme_mi_submit_req_nostamp(step) ==
    IF step.next # "exchange" THEN step
    ELSE IF ~nvme_mi_submit_checks(step.req, step.resp)
    THEN RetStep(0 - 1, "EINVAL", step.out)
    ELSE step

\* nvme_mi_submit up to the call of the transport (lines 192-225): every
\* caller returns the error of a failed check as its own
nvme_mi_submit_req(step) ==
    IF step.next # "exchange" THEN step
    ELSE IF ~nvme_mi_submit_checks(step.req, step.resp)
    THEN RetStep(0 - 1, "EINVAL", step.out)
    ELSE [step EXCEPT !.req = nvme_mi_calc_req_mic(step.req)]

(***************************************************************************)
(* The environment: what recvmsg can return                                *)
(***************************************************************************)
\* recvmsg fills the three iovecs and returns no more than they hold
RecvCapacity(rs) == (rs.hdr_len - 1) + rs.data_len + MicLen

\* failure, nothing, too short, the size of an error or MPR response,
\* unaligned, half the payload, all of it
RecvLens(rs) ==
    {l \in {0 - 1, 0, 7, 11, 13, rs.hdr_len + 3 + (rs.data_len \div 2),
            RecvCapacity(rs)} :
        l <= RecvCapacity(rs)}

WellFormedLen(l) == l + 1 >= 8 + MicLen /\ (l + 1) % 4 = 0

RspNmp == NVME_MI_ROR_RSP * 128

\* status, nmp and MIC of a datagram of a well-formed length: a response for
\* slot 0 with status 0 or 2 and a good or a bad MIC, a request, a response
\* for slot 1 with status 0 or 2
Replies ==
    {[status |-> st, nmp |-> RspNmp, micOk |-> ok] : st \in {0, 2}, ok \in BOOLEAN}
    \cup {[status |-> 0, nmp |-> NVME_MI_ROR_REQ * 128, micOk |-> TRUE]}
    \cup {[status |-> st, nmp |-> RspNmp + 1, micOk |-> TRUE] : st \in {0, 2}}

\* what recvmsg can return: a length that is not well-formed, a reply, a
\* More Processing Required response with mprt 0 or 5, one with a bad MIC
Datagrams(rs) ==
    {[len |-> l, status |-> 0, nmp |-> RspNmp, mprt |-> 0, micOk |-> TRUE] :
        l \in {l \in RecvLens(rs) : ~WellFormedLen(l)}}
    \cup
    {[len |-> l, status |-> r.status, nmp |-> r.nmp, mprt |-> 0,
      micOk |-> r.micOk] :
        l \in {l \in RecvLens(rs) : WellFormedLen(l)}, r \in Replies}
    \cup
    {[len |-> MprMsgLen + MicLen - 1, status |-> NVME_MI_RESP_MPR,
      nmp |-> RspNmp, mprt |-> m, micOk |-> TRUE] : m \in {0, 5}}
    \cup
    {[len |-> MprMsgLen + MicLen - 1, status |-> NVME_MI_RESP_MPR,
      nmp |-> RspNmp, mprt |-> 0, micOk |-> FALSE]}

\* the tag numbers the kernel still routes to the socket for the request
\* that was sent with the tag t
StillAllocated(kt, t) == IF HasPrealloc(t) THEN kt \cap {TagNumber(t)} ELSE {}

\* whether the datagram d answers the request of the call before, which
\* timed out, rather than the request under way: the kernel delivers such
\* an answer, a response with its MIC intact, while the tag of that request
\* is allocated
LateAnswer(d, timedOut, kt) ==
    IF /\ timedOut \cap kt # {}
       /\ WellFormedLen(d.len)
       /\ d.micOk
       /\ (d.nmp \div 128) % 2 = NVME_MI_ROR_RSP
       /\ d.status # NVME_MI_RESP_MPR
    THEN BOOLEAN ELSE {FALSE}

\* what a read of the word behind a zero-length data buffer can find
StaleWords(rs) ==
    IF rs.hdr_len <= MprMsgLen /\ rs.has_data /\ rs.data_len < MicLen
    THEN {"equal", "differ"} ELSE {"differ"}

\* a reply that carries bytes of payload, status 0 and a valid MIC
GoodReply(rs, bytes) ==
    [len |-> (rs.hdr_len - 1) + bytes + MicLen, status |-> 0,
     nmp |-> NVME_MI_ROR_RSP * 128, mprt |-> 0, micOk |-> TRUE]

\* the payload bytes the device sends in answer to the i-th exchange of a
\* call whose replies are fixed
DeviceBytes(o, rs, i) ==
    IF o.device.mode = "short" /\ i = o.device.k
    THEN Min(o.device.r, rs.data_len)
    ELSE rs.data_len

\* the MIC word nvme_mi_mctp_submit puts behind the header and the payload
\* of rq (lines 268-270): req->mic, the CRC of the bytes sent when the
\* header and the lengths are those it was computed over
SentMic(rq) ==
    IF rq.mic = [stamped |-> TRUE, hdr_len |-> rq.hdr_len,
                 data_len |-> rq.data_len, flags |-> rq.flags,
                 dlen |-> rq.dlen, doff |-> rq.doff,
                 cdw10 |-> rq.cdw10, cdw11 |-> rq.cdw11]
    THEN CrcOfPrefix(rq.hdr_len + rq.data_len)
    ELSE OtherWord

\* the datagram sent for rq, type byte restored, placed in a response frame
\* of the same lengths
FedBack(rq) ==
    [RespFrame(rq.hdr_len, rq.data_len, rq.data_len > 0) EXCEPT
        !.mic = SentMic(rq)]

(***************************************************************************)
(* Root, endpoints and controllers                                         *)
(***************************************************************************)
\* ccan lists, from the head: list_add puts the entry first, list_add_tail
\* last
list_add(l, n) == <<n>> \o l
list_add_tail(l, n) == Append(l, n)
list_del(l, n) == SelectSeq(l, LAMBDA x : x # n)

NoReply == [rc |-> 0, errno |-> "unset", num |-> 0, ids |-> <<>>]
NoLast == [op |-> "none", ep |-> 0, rc |-> 0, errno |-> "unset",
           force |-> FALSE, reply |-> NoReply, pair |-> <<0, 0>>, t |-> 0,
           chk |-> 0]

\* eps: every endpoint ever allocated, by the order of allocation; list:
\* root->endpoints; reads: controller list reads; last: the call that
\* returned last, the endpoint it was for or returned (0: NULL), and what
\* it was called with: the force argument of a scan and the controller list
\* it read, the (net, eid) pair of an addition, the timeout to set and
\* what the transport's check_timeout said of it
NoMi == [eps |-> <<>>, list |-> <<>>, root |-> "live", crashed |-> FALSE,
         reads |-> 0, last |-> NoLast]

\* struct nvme_mi_ep as calloc() and nvme_mi_init_ep leave it; alive: not
\* freed; closes: calls of the transport's close; frees: calls of free(ep)
NewEp == [alive |-> TRUE, transport |-> "none", has_check |-> FALSE,
          net |-> 0, eid |-> 0, sd |-> "none", timeout |-> default_timeout,
          mprt_max |-> 0, scanned |-> FALSE, ctrls |-> <<>>,
          closes |-> 0, frees |-> 0]

Last(m, o, e, rc, errno) ==
    [m EXCEPT !.last = [NoLast EXCEPT !.op = o, !.ep = e, !.rc = rc,
                                      !.errno = errno]]

\* nvme_mi_init_ep; ok: calloc() succeeds
nvme_mi_init_ep_ret(m, ok) ==
    IF ~ok THEN m
    ELSE [m EXCEPT !.eps = Append(@, NewEp),
                   !.list = list_add(@, Len(m.eps) + 1)]

\* free(ep): the contents of the memory are indeterminate from here on;
\* what stays is what the process did with the socket and the allocation
FreeEp(e) ==
    [NewEp EXCEPT !.alive = FALSE, !.frees = e.frees + 1,
                  !.transport = e.transport, !.sd = e.sd,
                  !.closes = e.closes, !.ctrls = e.ctrls]

\* nvme_mi_open_mctp; outcome: "no_ep", "no_mctp" (malloc fails),
\* "no_socket" (socket() fails) or "ok"
nvme_mi_open_mctp_ret(m, net, eid, outcome) ==
    LET m1 == nvme_mi_init_ep_ret(m, outcome # "no_ep")
        e == Len(m1.eps)
    IN  CASE outcome = "no_ep" ->
               Last(m1, "nvme_mi_open_mctp", 0, 0, "ENOMEM")
          [] outcome = "no_mctp" ->
               Last([m1 EXCEPT !.eps[e] = FreeEp(@)],
                    "nvme_mi_open_mctp", 0, 0, "ENOMEM")
          [] outcome = "no_socket" ->
               Last([m1 EXCEPT !.eps[e] = FreeEp(@)],
                    "nvme_mi_open_mctp", 0, 0, "EAFNOSUPPORT")
          [] OTHER ->
               Last([m1 EXCEPT !.eps[e] = [@ EXCEPT !.transport = "mctp",
                                                    !.net = net, !.eid = eid,
                                                    !.sd = "open",
                                                    !.timeout = mctp_timeout]],
                    "nvme_mi_open_mctp", e, 0, "unset")

\* the list walk of nvme_mi_mctp_add (lines 520-527): "found", "none" or
\* "crash".  ub: what reading a freed endpoint gives: the "stale" contents
\* (transport NULL), a "crash", or bytes that "match"
RECURSIVE mctp_add_walk(_, _, _, _, _)
mctp_add_walk(m, l, net, eid, ub) ==
    IF l = <<>> THEN "none"
    ELSE LET e == m.eps[Head(l)]
         IN  IF ~e.alive
             THEN CASE ub = "crash" -> "crash"
                    [] ub = "match" -> "found"
                    [] OTHER -> mctp_add_walk(m, Tail(l), net, eid, ub)
             ELSE IF e.transport # "mctp"
             THEN mctp_add_walk(m, Tail(l), net, eid, ub)
             ELSE IF e.eid = eid /\ e.net = net THEN "found"
             ELSE mctp_add_walk(m, Tail(l), net, eid, ub)

\* nvme_mi_mctp_add
nvme_mi_mctp_add_ret(m, net, eid, outcome, ub) ==
    LET w == mctp_add_walk(m, m.list, net, eid, ub)
    IN  CASE w = "crash" ->
               Last([m EXCEPT !.crashed = TRUE], "nvme_mi_mctp_add", 0, 0, "unset")
          [] w = "found" -> Last(m, "nvme_mi_mctp_add", 0, 0, "unset")
          [] OTHER ->
               LET m1 == nvme_mi_open_mctp_ret(m, net, eid, outcome)
               IN  IF m1.last.ep = 0
                   THEN Last(m1, "nvme_mi_mctp_add", 0, 0 - 1, m1.last.errno)
                   ELSE Last(m1, "nvme_mi_mctp_add", m1.last.ep, 0, "unset")

\* a setter that stores the timeout before it asks the transport
nvme_mi_ep_set_timeout_ret_early(e, t, check_rc) ==
    [ep |-> [e EXCEPT !.timeout = t],
     rc |-> IF e.has_check /\ check_rc # 0 THEN check_rc ELSE 0]

\* nvme_mi_ep_set_timeout on the endpoint e; check_rc: what the transport's
\* check_timeout returns, when it has one
nvme_mi_ep_set_timeout_ret(e, t, check_rc) ==
    IF e.has_check /\ check_rc # 0
    THEN [ep |-> e, rc |-> check_rc]
    ELSE [ep |-> [e EXCEPT !.timeout = t], rc |-> 0]

\* nvme_mi_init_ctrl; obj tells the allocations apart: the controller list
\* read the controller was made for
nvme_mi_init_ctrl_ret(m, e, id) ==
    [m EXCEPT !.eps[e].ctrls = list_add_tail(@, [id |-> id, obj |-> m.reads])]

\* nvme_mi_close_ctrl
nvme_mi_close_ctrl_ret(m, e, c) ==
    [m EXCEPT !.eps[e].ctrls = list_del(@, c)]

\* nvme_mi_for_each_ctrl_safe(ep, ctrl, tmp) nvme_mi_close_ctrl(ctrl)
RECURSIVE close_ctrls(_, _)
close_ctrls(m, e) ==
    IF m.eps[e].ctrls = <<>> THEN m
    ELSE close_ctrls(nvme_mi_close_ctrl_ret(m, e, Head(m.eps[e].ctrls)), e)

\* list.identifier[i - 1] of the list buffer after the read; the entries
\* the model does not carry are zero
ListEntry(reply, i) == IF i <= Len(reply.ids) THEN reply.ids[i] ELSE 0

\* the loop of nvme_mi_scan_ep (lines 137-148) from entry i on; failAt: the
\* entry at which malloc() fails in nvme_mi_init_ctrl (0: never)
RECURSIVE scan_loop(_, _, _, _, _)
scan_loop(m, e, reply, i, failAt) ==
    IF i > reply.num \/ i > Len(reply.ids) THEN m
    ELSE IF ListEntry(reply, i) = 0 THEN scan_loop(m, e, reply, i + 1, failAt)
    ELSE IF i = failAt THEN m
    ELSE scan_loop(nvme_mi_init_ctrl_ret(m, e, ListEntry(reply, i)),
                   e, reply, i + 1, failAt)

LastScan(m, e, force, rc, errno) ==
    [m EXCEPT !.last = [NoLast EXCEPT !.op = "nvme_mi_scan_ep", !.ep = e,
                                      !.rc = rc, !.errno = errno,
                                      !.force = force]]

\* a scan that keeps the controllers of the scan before
nvme_mi_scan_ep_ret_keep(m, e, force, reply, failAt) ==
    IF m.eps[e].scanned /\ ~force
    THEN LastScan(m, e, force, 0, "unset")
    ELSE LET m2 == [m EXCEPT !.reads = @ + 1]
         IN  IF reply.rc # 0
             THEN LastScan(m2, e, force, 0 - 1, reply.errno)
             ELSE IF reply.num > NVME_ID_CTRL_LIST_MAX
             THEN LastScan(m2, e, force, 0 - 1, "EPROTO")
             ELSE LET m3 == scan_loop(m2, e, reply, 1, failAt)
                  IN  LastScan([m3 EXCEPT !.eps[e].scanned = TRUE],
                               e, force, 0, "unset")

\* nvme_mi_scan_ep; reply: what nvme_mi_mi_read_mi_data_ctrl_list returns
\* and leaves in the list buffer
nvme_mi_scan_ep_ret(m, e, force, reply, failAt) ==
    IF m.eps[e].scanned /\ ~force
    THEN LastScan(m, e, force, 0, "unset")
    ELSE LET m1 == IF m.eps[e].scanned THEN close_ctrls(m, e) ELSE m
             m2 == [m1 EXCEPT !.reads = @ + 1]
         IN  IF reply.rc # 0
             THEN LastScan(m2, e, force, 0 - 1, reply.errno)
             ELSE IF reply.num > NVME_ID_CTRL_LIST_MAX
             THEN LastScan(m2, e, force, 0 - 1, "EPROTO")
             ELSE LET m3 == scan_loop(m2, e, reply, 1, failAt)
                  IN  LastScan([m3 EXCEPT !.eps[e].scanned = TRUE],
                               e, force, 0, "unset")

\* nvme_mi_mctp_close
nvme_mi_mctp_close(e) ==
    IF e.transport # "mctp" THEN e
    ELSE [e EXCEPT !.sd = "closed", !.closes = @ + 1]

\* ep->transport->close(ep), of the MCTP transport or of another
TransportClose(e) ==
    IF e.transport = "mctp" THEN nvme_mi_mctp_close(e)
    ELSE [e EXCEPT !.closes = @ + 1]

\* nvme_mi_close
nvme_mi_close_ret(m, e) ==
    LET m1 == [m EXCEPT !.eps[e].scanned = TRUE]
        m2 == close_ctrls(m1, e)
        m3 == [m2 EXCEPT !.eps[e] = TransportClose(@)]
    IN  [m3 EXCEPT !.list = list_del(@, e), !.eps[e] = FreeEp(@)]

\* the loop of nvme_mi_free_root over the entries l.  ub: what
\* nvme_mi_close does with a freed endpoint: a "crash", or a second free
RECURSIVE free_root_loop(_, _, _)
free_root_loop(m, l, ub) ==
    IF l = <<>> THEN [m EXCEPT !.root = "freed"]
    ELSE LET e == Head(l)
         IN  IF m.eps[e].alive
             THEN free_root_loop(nvme_mi_close_ret(m, e), Tail(l), ub)
             ELSE IF ub = "crash" THEN [m EXCEPT !.crashed = TRUE]
             ELSE free_root_loop([m EXCEPT !.eps[e] = FreeEp(@),
                                           !.list = list_del(@, e)],
                                 Tail(l), ub)

\* nvme_mi_free_root
nvme_mi_free_root_ret(m, ub) ==
    Last(free_root_loop(m, m.list, ub), "nvme_mi_free_root", 0, 0, "unset")

\* nvme_mi_first_endpoint, nvme_mi_next_endpoint to the end
RECURSIVE nvme_mi_next_endpoint(_, _)
nvme_mi_next_endpoint(l, i) ==
    IF i > Len(l) THEN <<>> ELSE <<l[i]>> \o nvme_mi_next_endpoint(l, i + 1)

nvme_mi_first_endpoint(m) == nvme_mi_next_endpoint(m.list, 1)

(***************************************************************************)
(* CRC engine, bit by bit                                                  *)
(***************************************************************************)
\* a __u32 is its 32 bits, the lowest first
WordBits == 32

\* the word 0xd1..d8 of eight hexadecimal digits, the highest first
HexWord(d) ==
    [i \in 1 .. WordBits |->
        (d[8 - ((i - 1) \div 4)] \div (2 ^ ((i - 1) % 4))) % 2]

Poly == HexWord(<<8, 2, 15, 6, 3, 11, 7, 8>>)
AllOnes == HexWord(<<15, 15, 15, 15, 15, 15, 15, 15>>)
ZeroWord == HexWord(<<0, 0, 0, 0, 0, 0, 0, 0>>)

\* x ^ y, x >> 1, ~x, and an unsigned char widened to 32 bits
XorW(x, y) == [i \in 1 .. WordBits |-> (x[i] + y[i]) % 2]
Shr1(x) == [i \in 1 .. WordBits |-> IF i < WordBits THEN x[i + 1] ELSE 0]
NotW(x) == [i \in 1 .. WordBits |-> 1 - x[i]]
ByteWord(b) ==
    [i \in 1 .. WordBits |-> IF i <= 8 THEN (b \div (2 ^ (i - 1))) % 2 ELSE 0]

\* a step that feeds back on the highest bit
crc_step_msb(c) == XorW(Shr1(c), IF c[WordBits] = 1 THEN Poly ELSE ZeroWord)

\* crc = (crc >> 1) ^ ((crc & 1) ? 0x82F63B78 : 0)
crc_step(c) == XorW(Shr1(c), IF c[1] = 1 THEN Poly ELSE ZeroWord)

\* for (i = 0; i < 8; i++) from i on
RECURSIVE crc_steps(_, _)
crc_steps(c, i) == IF i >= 8 THEN c ELSE crc_steps(crc_step(c), i + 1)

\* nvme_mi_crc32_update over the bytes data
RECURSIVE nvme_mi_crc32_update(_, _)
nvme_mi_crc32_update(c, data) ==
    IF data = <<>> THEN c
    ELSE nvme_mi_crc32_update(crc_steps(XorW(c, ByteWord(Head(data))), 0),
                              Tail(data))

\* req->mic as nvme_mi_calc_req_mic computes it from the header bytes h and
\* the payload bytes p
calc_req_mic_word(h, p) ==
    NotW(nvme_mi_crc32_update(nvme_mi_crc32_update(AllOnes, h), p))

\* the inputs of the engine: accumulators, and spans of up to MaxCrcBytes
\* bytes
CrcBytes == {0, 1, 255}
Accs == {AllOnes, ZeroWord, HexWord(<<1, 2, 3, 4, 10, 11, 12, 13>>)}
Spans == UNION {[1 .. n -> CrcBytes] : n \in 0 .. MaxCrcBytes}

NoCrc == [pc |-> "none"]

(***************************************************************************)
(* State                                                                   *)
(***************************************************************************)
NoCnt == [state |-> "none", exit |-> "none", alloc |-> 0, drop |-> 0,
          send |-> 0, eintr |-> 0, mpr |-> 0, waited |-> 0, late |-> FALSE]
NoIo == [transport |-> 0, allocs |-> 0, drops |-> 0, sends |-> 0,
         micFail |-> FALSE]
NoRet == [rc |-> 0, errno |-> "unset"]

\* no exchange under way on the endpoint of the exchanges
NoExchange ==
    /\ pc = "idle"
    /\ op = NoOp
    /\ req = NoReq
    /\ resp = NoResp
    /\ xfer = NoXfer
    /\ tag = 0
    /\ timeout = 0
    /\ kernelTags = {}
    /\ cnt = NoCnt
    /\ io = NoIo
    /\ log = <<>>
    /\ dg = NoDg
    /\ ret = NoRet
    /\ out = Out(0)
    /\ ep = [timeout |-> mctp_timeout, mprt_max |-> 0, sd_open |-> TRUE,
             in_root |-> TRUE]
    /\ prev = [micFail |-> FALSE, timedOut |-> {}]

Init ==
    /\ NoExchange
    /\ mi = NoMi
    /\ crc = NoCrc

\* the call returns, or goes on to the transport with the frames of step
Apply(step, rq, rs) ==
    /\ pc' = IF step.next = "return" THEN "returned" ELSE "send"
    /\ req' = IF step.next = "return" /\ step.req = NoReq THEN rq ELSE step.req
    /\ resp' = IF step.next = "return" /\ step.resp = NoResp THEN rs ELSE step.resp
    /\ xfer' = step.xfer
    /\ ret' = [rc |-> step.rc, errno |-> step.errno]
    /\ out' = step.out

Call(o, len) ==
    /\ pc = "idle"
    /\ op' = o
    /\ LET step == OpRequest(o, Out(len))
       IN  Apply(nvme_mi_submit_req(step), step.req, step.resp)
    /\ cnt' = NoCnt
    /\ io' = NoIo
    /\ log' = <<>>
    /\ dg' = NoDg
    /\ UNCHANGED <<tag, timeout, kernelTags, ep, prev, mi, crc>>

\* the transport returned trc to nvme_mi_submit (lines 226-270), which
\* returns to the command, which returns or starts its next exchange.
\* io1, log1: the counters and the log as the transport call leaves them
TransportReturn(trc, terr, rs, io1, log1) ==
    LET sr == IF trc # 0 THEN SRet(trc, terr) ELSE nvme_mi_submit_resp(req, rs)
        step == IF sr.rc # 0
                THEN RetStep(sr.rc, sr.errno, out)
                ELSE OpResponse(op, xfer, rs, out)
        got == IF sr.rc # 0 THEN "failed"
               ELSE IF rs.status # 0 THEN "status"
               ELSE "data"
    IN  /\ Apply(nvme_mi_submit_req(step), req, rs)
        /\ log' = [log1 EXCEPT ![Len(log1)] =
                       [@ EXCEPT !.answer = got, !.bytes = rs.data_len]]
        /\ io' = [io1 EXCEPT !.micFail =
                       trc = 0 /\ nvme_mi_verify_resp_mic(rs) # 0]
        /\ timeout' = 0

LogEntry(rq, rs) == [req |-> rq, resp |-> rs, answer |-> "none", bytes |-> 0]

Scripted == op.device.mode # "any"

(***************************************************************************)
(* API calls                                                               *)
(***************************************************************************)
HdrLens == {0, 6, 8, 16, 20}
DataLens == {0, 2, 8}
AdminSizes == {0, 8, 4096, 4100}
Offsets == {Wide(0, 0), Wide(0, 2), Wide(0, 4), Wide(4, 0)}
IdentifySizes == {Wide(0, 0), Wide(0, 4), Wide(0, 4096), Wide(0, 8192), Wide(4, 0)}
LogLens == {0, 4, 6, 2048, 4096, 6144, 8192, 12288}
ShortReplies == {0, 4, 2048}

nvme_mi_submit ==
    \E rqh \in {0, 6, 16}, rqd \in {0, 2}, rsh \in HdrLens \cup {4}, rsd \in DataLens :
        Call([NoOp EXCEPT !.kind = "nvme_mi_submit", !.rq_hdr = rqh,
                          !.req_size = rqd, !.rs_hdr = rsh, !.resp_size = rsd],
             rsd)

nvme_mi_admin_xfer ==
    \E rqd \in AdminSizes, rsd \in AdminSizes, off \in Offsets :
        Call([NoOp EXCEPT !.kind = "nvme_mi_admin_xfer", !.req_size = rqd,
                          !.resp_size = rsd, !.offset = off], rsd)

nvme_mi_admin_identify_partial ==
    \E ok \in BOOLEAN, off \in Offsets, size \in IdentifySizes, res \in BOOLEAN :
        Call([NoOp EXCEPT !.kind = "nvme_mi_admin_identify_partial",
                          !.args_ok = ok, !.offset = off, !.size = size,
                          !.want_result = res], 0)

nvme_mi_admin_get_log ==
    \E ok \in BOOLEAN, n \in LogLens, rae \in BOOLEAN,
       dev \in {AnyReply, [mode |-> "full", k |-> 0, r |-> 0]}
               \cup {[mode |-> "short", k |-> k, r |-> r] :
                        k \in 1 .. 3, r \in ShortReplies} :
        Call([NoOp EXCEPT !.kind = "nvme_mi_admin_get_log", !.args_ok = ok,
                          !.resp_size = n, !.rae = rae, !.device = dev], n)

nvme_mi_admin_security_send ==
    \E ok \in BOOLEAN, n \in AdminSizes, res \in {TRUE} :
        Call([NoOp EXCEPT !.kind = "nvme_mi_admin_security_send",
                          !.args_ok = ok, !.req_size = n, !.want_result = res], n)

nvme_mi_admin_security_recv ==
    \E ok \in BOOLEAN, n \in AdminSizes, res \in {TRUE} :
        Call([NoOp EXCEPT !.kind = "nvme_mi_admin_security_recv",
                          !.args_ok = ok, !.resp_size = n, !.want_result = res], n)

nvme_mi_mi_read_mi_data_subsys ==
    Call([NoOp EXCEPT !.kind = "nvme_mi_mi_read_mi_data_subsys",
                      !.resp_size = SubsysInfoLen], SubsysInfoLen)

nvme_mi_mi_read_mi_data_ctrl_list ==
    Call([NoOp EXCEPT !.kind = "nvme_mi_mi_read_mi_data_ctrl_list",
                      !.resp_size = CtrlListLen], CtrlListLen)

nvme_mi_mi_config_get ==
    Call([NoOp EXCEPT !.kind = "nvme_mi_mi_config_get"], 0)

nvme_mi_mi_config_set ==
    Call([NoOp EXCEPT !.kind = "nvme_mi_mi_config_set"], 0)

\* the MCTP transport has no check_timeout
nvme_mi_ep_set_timeout ==
    /\ pc = "idle"
    /\ \E t \in {0, mctp_timeout} : ep' = [ep EXCEPT !.timeout = t]
    /\ UNCHANGED <<pc, op, req, resp, xfer, tag, timeout, kernelTags, cnt, io,
                   log, dg, ret, out, prev, mi, crc>>

nvme_mi_ep_set_mprt_max ==
    /\ pc = "idle"
    /\ \E m \in {0, 300} : ep' = [ep EXCEPT !.mprt_max = m]
    /\ UNCHANGED <<pc, op, req, resp, xfer, tag, timeout, kernelTags, cnt, io,
                   log, dg, ret, out, prev, mi, crc>>

\* the caller has the results of the call and makes ready for the next
CallerContinues ==
    /\ pc = "returned"
    /\ pc' = "idle"
    /\ op' = NoOp
    /\ req' = NoReq
    /\ resp' = NoResp
    /\ xfer' = NoXfer
    /\ tag' = 0
    /\ timeout' = 0
    /\ cnt' = NoCnt
    /\ io' = NoIo
    /\ log' = <<>>
    /\ dg' = NoDg
    /\ ret' = NoRet
    /\ out' = Out(0)
    /\ prev' = [micFail |-> io.micFail,
                timedOut |-> IF cnt.exit = "timeout"
                             THEN StillAllocated(kernelTags, tag) ELSE {}]
    /\ UNCHANGED <<kernelTags, ep, mi, crc>>

(***************************************************************************)
(* nvme_mi_mctp_submit, step by step                                       *)
(***************************************************************************)
\* lines 236-306: the checks, the tag, sendmsg
nvme_mi_mctp_submit_send ==
    /\ pc = "send"
    /\ UNCHANGED <<mi, crc>>
    /\ LET io1 == [io EXCEPT !.transport = @ + 1]
           log1 == Append(log, LogEntry(req, resp))
       IN  IF resp.hdr_len < MsgRespLen
           THEN /\ cnt' = [NoCnt EXCEPT !.state = "returned", !.exit = "resp_hdr"]
                /\ TransportReturn(0 - 1, "EINVAL", resp, io1, log1)
                /\ UNCHANGED <<op, tag, kernelTags, dg, ep, prev>>
           ELSE \E sent \in BOOLEAN :
                    LET t == nvme_mi_mctp_tag_alloc(kernelTags)
                        kt == KernelAfterAlloc(kernelTags, t)
                        io2 == [io1 EXCEPT !.allocs = @ + 1, !.sends = @ + 1]
                    IN  /\ Scripted => sent
                        /\ tag' = t
                        /\ IF sent
                           THEN /\ pc' = "poll"
                                /\ timeout' = IF ep.timeout # 0 THEN ep.timeout ELSE 0 - 1
                                /\ kernelTags' = kt
                                /\ cnt' = [NoCnt EXCEPT !.state = "running",
                                                        !.alloc = 1, !.send = 1]
                                /\ io' = io2
                                /\ log' = log1
                                /\ UNCHANGED <<op, req, resp, xfer, dg, ret, out, ep, prev>>
                           ELSE /\ kernelTags' = nvme_mi_mctp_tag_drop(kt, t)
                                /\ cnt' = [NoCnt EXCEPT !.state = "returned",
                                                        !.exit = "sendmsg",
                                                        !.alloc = 1, !.send = 1,
                                                        !.drop = 1]
                                /\ TransportReturn(0 - 1, "ENXIO", resp,
                                                   [io2 EXCEPT !.drops = @ + 1], log1)
                                /\ UNCHANGED <<op, dg, ep, prev>>

\* the milliseconds a poll(fds, 1, t) that a signal interrupts has waited:
\* any time short of t, here the longest
PollInterruptedAfter(t) == IF t > 0 THEN t - 1 ELSE 1

\* lines 307-311: poll returns EINTR, goto retry: poll is called again with
\* the same timeout
nvme_mi_mctp_submit_poll_eintr ==
    /\ pc = "poll"
    /\ ~Scripted
    /\ cnt.eintr < MaxEintr
    /\ cnt' = [cnt EXCEPT !.eintr = @ + 1,
                          !.waited = @ + PollInterruptedAfter(timeout)]
    /\ UNCHANGED <<pc, op, req, resp, xfer, tag, timeout, kernelTags, io, log,
                   dg, ret, out, ep, prev, mi, crc>>

\* lines 312-316: poll fails
nvme_mi_mctp_submit_poll_error ==
    /\ pc = "poll"
    /\ ~Scripted
    /\ cnt' = [cnt EXCEPT !.state = "returned", !.exit = "poll"]
    /\ TransportReturn(0 - 1, "ENOMEM", resp, io, log)
    /\ UNCHANGED <<op, tag, kernelTags, dg, ep, prev, mi, crc>>

\* lines 319-323: poll returns 0, which it can when the wait is bounded
nvme_mi_mctp_submit_poll_timeout ==
    /\ pc = "poll"
    /\ ~Scripted
    /\ timeout >= 0
    /\ cnt' = [cnt EXCEPT !.state = "returned", !.exit = "timeout",
                          !.waited = @ + timeout]
    /\ TransportReturn(0 - 1, "ETIMEDOUT", resp, io, log)
    /\ UNCHANGED <<op, tag, kernelTags, dg, ep, prev, mi, crc>>

RecvExit(d) ==
    IF d.len < 0 THEN "recvmsg"
    ELSE IF d.len = 0 THEN "no_data"
    ELSE IF d.len + 1 < 8 + MicLen THEN "too_short"
    ELSE IF (d.len + 1) % 4 # 0 THEN "unaligned"
    ELSE "received"

\* lines 319-422: poll reports the socket readable, recvmsg returns d
nvme_mi_mctp_submit_recv ==
    /\ pc = "poll"
    /\ UNCHANGED <<mi, crc>>
    /\ \E d \in IF Scripted
                 THEN {GoodReply(resp, DeviceBytes(op, resp, io.transport))}
                 ELSE Datagrams(resp),
          stale \in StaleWords(resp) :
       \E late \in LateAnswer(d, prev.timedOut, kernelTags) :
        LET r == nvme_mi_mctp_recv(resp, d, stale, ep)
            io1 == io
        IN  /\ Scripted => ~late
            /\ dg' = d
            /\ CASE r.next = "retry" ->
                      /\ cnt.mpr < MaxMpr
                      /\ cnt' = [cnt EXCEPT !.mpr = @ + 1, !.eintr = 0,
                                            !.waited = 0]
                      /\ timeout' = r.timeout
                      /\ resp' = r.resp
                      /\ io' = io1
                      /\ UNCHANGED <<pc, op, req, xfer, tag, kernelTags, log,
                                     ret, out, ep, prev>>
                 [] r.next = "crash" ->
                      /\ pc' = "crashed"
                      /\ resp' = r.resp
                      /\ io' = io1
                      /\ UNCHANGED <<op, req, xfer, tag, timeout, kernelTags,
                                     cnt, log, ret, out, ep, prev>>
                 [] r.next = "out" ->
                      /\ kernelTags' = nvme_mi_mctp_tag_drop(kernelTags, tag)
                      /\ cnt' = [cnt EXCEPT !.state = "returned", !.eintr = 0,
                                            !.waited = 0, !.late = late,
                                            !.exit = RecvExit(d), !.drop = @ + 1]
                      /\ TransportReturn(r.rc, r.errno, r.resp,
                                         [io1 EXCEPT !.drops = @ + 1], log)
                      /\ UNCHANGED <<op, tag, ep, prev>>

Next ==
    \/ nvme_mi_submit
    \/ nvme_mi_admin_xfer
    \/ nvme_mi_admin_identify_partial
    \/ nvme_mi_admin_get_log
    \/ nvme_mi_admin_security_send
    \/ nvme_mi_admin_security_recv
    \/ nvme_mi_mi_read_mi_data_subsys
    \/ nvme_mi_mi_read_mi_data_ctrl_list
    \/ nvme_mi_mi_config_get
    \/ nvme_mi_mi_config_set
    \/ nvme_mi_ep_set_timeout
    \/ nvme_mi_ep_set_mprt_max
    \/ CallerContinues
    \/ nvme_mi_mctp_submit_send
    \/ nvme_mi_mctp_submit_poll_eintr
    \/ nvme_mi_mctp_submit_poll_error
    \/ nvme_mi_mctp_submit_poll_timeout
    \/ nvme_mi_mctp_submit_recv

Spec == Init /\ [][Next]_vars

(***************************************************************************)
(* Opening, scanning and closing endpoints                                 *)
(***************************************************************************)
Nets == {1}
Eids == {8, 9}
OpenOutcomes == {"ok", "no_ep", "no_mctp", "no_socket"}
Timeouts == {2000}

\* what the controller list read returns and leaves in the buffer: a
\* failure, lists of num entries, and counts at and over the maximum
ScanReplies ==
    {[rc |-> 0 - 1, errno |-> "ETIMEDOUT", num |-> 0, ids |-> <<>>]}
    \cup {[rc |-> 0, errno |-> "unset", num |-> Len(ids), ids |-> ids] :
            ids \in {<<>>, <<1, 3>>, <<1, 0, 3>>}}
    \cup {[rc |-> 0, errno |-> "unset", num |-> 1, ids |-> <<1, 3>>],
          [rc |-> 0, errno |-> "unset", num |-> NVME_ID_CTRL_LIST_MAX,
           ids |-> <<1, 3>>],
          [rc |-> 0, errno |-> "unset", num |-> NVME_ID_CTRL_LIST_MAX + 1,
           ids |-> <<1, 3>>]}

RootUsable == mi.root = "live" /\ ~mi.crashed

\* the endpoints the caller holds: returned by an open and not closed
Handles == {e \in 1 .. Len(mi.eps) : mi.eps[e].alive /\ mi.eps[e].transport # "none"}

\* a transport other than MCTP makes an endpoint
nvme_mi_init_ep ==
    /\ RootUsable
    /\ \E ok \in BOOLEAN, chk \in BOOLEAN :
        LET m1 == nvme_mi_init_ep_ret(mi, ok)
            e == Len(m1.eps)
        IN  mi' = IF ~ok THEN Last(m1, "nvme_mi_init_ep", 0, 0, "ENOMEM")
                  ELSE Last([m1 EXCEPT !.eps[e].transport = "generic",
                                       !.eps[e].has_check = chk],
                            "nvme_mi_init_ep", e, 0, "unset")
    /\ UNCHANGED <<xvars, crc>>

nvme_mi_open_mctp ==
    /\ RootUsable
    /\ \E net \in Nets, eid \in Eids, o \in OpenOutcomes :
        mi' = nvme_mi_open_mctp_ret(mi, net, eid, o)
    /\ UNCHANGED <<xvars, crc>>

nvme_mi_mctp_add ==
    /\ RootUsable
    /\ \E net \in Nets, eid \in Eids, o \in OpenOutcomes,
          ub \in {"stale", "crash", "match"} :
        mi' = [nvme_mi_mctp_add_ret(mi, net, eid, o, ub) EXCEPT
                  !.last.pair = <<net, eid>>]
    /\ UNCHANGED <<xvars, crc>>

nvme_mi_ep_set_timeout_checked ==
    /\ RootUsable
    /\ \E e \in Handles, t \in Timeouts, check_rc \in {0, 0 - 1} :
        LET r == nvme_mi_ep_set_timeout_ret(mi.eps[e], t, check_rc)
            m1 == Last([mi EXCEPT !.eps[e] = r.ep], "nvme_mi_ep_set_timeout",
                       e, r.rc, IF r.rc = 0 THEN "unset" ELSE "EINVAL")
        IN  mi' = [m1 EXCEPT !.last.t = t,
                             !.last.chk = IF mi.eps[e].has_check
                                          THEN check_rc ELSE 0]
    /\ UNCHANGED <<xvars, crc>>

nvme_mi_scan_ep ==
    /\ RootUsable
    /\ \E e \in Handles, force \in BOOLEAN, reply \in ScanReplies,
          failAt \in {0, 2} :
        LET m1 == nvme_mi_scan_ep_ret(mi, e, force, reply, failAt)
        IN  mi' = IF m1.reads = mi.reads THEN m1
                  ELSE [m1 EXCEPT !.last.reply = reply]
    /\ UNCHANGED <<xvars, crc>>

nvme_mi_close ==
    /\ RootUsable
    /\ \E e \in Handles :
        mi' = Last(nvme_mi_close_ret(mi, e), "nvme_mi_close", e, 0, "unset")
    /\ UNCHANGED <<xvars, crc>>

nvme_mi_free_root ==
    /\ RootUsable
    /\ \E ub \in {"crash", "free"} : mi' = nvme_mi_free_root_ret(mi, ub)
    /\ UNCHANGED <<xvars, crc>>

\* the model allocates no more than maxEps endpoints and reads no more
\* than maxReads controller lists
Within(maxEps, maxReads) ==
    /\ Len(mi'.eps) <= maxEps
    /\ mi'.reads <= maxReads

\* one endpoint: opened, configured, scanned and closed
NextEp ==
    \/ nvme_mi_init_ep /\ Within(MaxEps - 1, MaxScans)
    \/ nvme_mi_open_mctp /\ Within(MaxEps - 1, MaxScans)
    \/ nvme_mi_ep_set_timeout_checked
    \/ nvme_mi_scan_ep /\ Within(MaxEps - 1, MaxScans)
    \/ nvme_mi_close

SpecEp == Init /\ [][NextEp]_vars

\* the root and its endpoints
NextRoot ==
    \/ nvme_mi_init_ep /\ Within(MaxEps, MaxScans - 1)
    \/ nvme_mi_open_mctp /\ Within(MaxEps, MaxScans - 1)
    \/ nvme_mi_mctp_add /\ Within(MaxEps, MaxScans - 1)
    \/ nvme_mi_scan_ep /\ Within(MaxEps, MaxScans - 1)
    \/ nvme_mi_close
    \/ nvme_mi_free_root

SpecRoot == Init /\ [][NextRoot]_vars

\* a wait in poll ends: a bounded poll that nothing else ends returns 0
\* when its time is up, and a device whose replies are fixed replies
WaitEnds ==
    \/ nvme_mi_mctp_submit_poll_timeout
    \/ Scripted /\ nvme_mi_mctp_submit_recv

\* the exchanges, with a process that keeps running: sendmsg returns and a
\* wait in poll ends
SpecLive ==
    /\ Init
    /\ [][Next]_vars
    /\ WF_vars(nvme_mi_mctp_submit_send)
    /\ WF_vars(WaitEnds)

(***************************************************************************)
(* The CRC engine on its own                                               *)
(***************************************************************************)
\* an accumulator a, a header span h and a payload span p
InitCrc ==
    /\ NoExchange
    /\ mi = NoMi
    /\ \E a \in Accs, h \in Spans, p \in Spans :
          crc = [pc |-> "in", a |-> a, h |-> h, p |-> p, acc |-> a,
                 mic |-> ZeroWord]

\* crc = nvme_mi_crc32_update(crc, h, Len(h))
crc32_update_hdr ==
    /\ crc.pc = "in"
    /\ crc' = [crc EXCEPT !.pc = "hdr",
                          !.acc = nvme_mi_crc32_update(crc.acc, crc.h)]
    /\ UNCHANGED <<xvars, mi>>

\* crc = nvme_mi_crc32_update(crc, p, Len(p))
crc32_update_data ==
    /\ crc.pc = "hdr"
    /\ crc' = [crc EXCEPT !.pc = "data",
                          !.acc = nvme_mi_crc32_update(crc.acc, crc.p)]
    /\ UNCHANGED <<xvars, mi>>

\* nvme_mi_calc_req_mic on a request of header h and payload p
calc_req_mic ==
    /\ crc.pc = "in"
    /\ crc' = [crc EXCEPT !.pc = "mic",
                          !.mic = calc_req_mic_word(crc.h, crc.p)]
    /\ UNCHANGED <<xvars, mi>>

NextCrc ==
    \/ crc32_update_hdr
    \/ crc32_update_data
    \/ calc_req_mic

SpecCrc == InitCrc /\ [][NextCrc]_vars

(***************************************************************************)
(* Properties                                                              *)
(***************************************************************************)
Returned == pc = "returned"
EInval == [rc |-> 0 - 1, errno |-> "EINVAL"]
NoIO == io.transport = 0 /\ io.allocs = 0 /\ io.sends = 0 /\ log = <<>>

\* the transport call has returned, having allocated a tag from the kernel
TransportReturnedWithTag ==
    cnt.state = "returned" /\ cnt.alloc = 1 /\ HasPrealloc(tag)

\* C1: every call of nvme_mi_mctp_submit that allocated a tag has called
\* nvme_mi_mctp_tag_drop with it exactly once when it returns, and the kernel
\* no longer holds the tag, whatever the exit path
C1_TagDroppedOnce ==
    TransportReturnedWithTag =>
        cnt.drop = 1 /\ TagNumber(tag) \notin kernelTags

\* ceil(n / 4096)
Windows(n) == (n + xfer_size - 1) \div xfer_size
WindowOffset(i) == xfer_size * (i - 1)
WindowSize(n, i) == Min(xfer_size, n - WindowOffset(i))

GetLogCall(mode) ==
    /\ op.kind = "nvme_mi_admin_get_log"
    /\ op.args_ok
    /\ op.device.mode = mode
    /\ op.resp_size > 0
    /\ op.resp_size % 4 = 0

\* C2: a Get Log Page call for N > 0 bytes, N a multiple of 4, that the
\* device answers in full with status 0 returns 0 after ceil(N/4096)
\* exchanges at offsets 0, 4096, ... of at most 4096 bytes each, with
\* args->len = N and the N bytes in the buffer, window after window
C2_GetLogFull ==
    (GetLogCall("full") /\ Returned) =>
        LET n == op.resp_size
        IN  /\ ret.rc = 0
            /\ out.len = n
            /\ Len(log) = Windows(n)
            /\ \A i \in 1 .. Len(log) :
                  /\ log[i].req.doff = WindowOffset(i)
                  /\ log[i].req.dlen = WindowSize(n, i)
                  /\ log[i].req.dlen <= xfer_size
            /\ out.buf = [i \in 1 .. Windows(n) |->
                              <<WindowOffset(i), WindowSize(n, i)>>]

\* C3: a Get Log Page call whose first k-1 windows the device answers in
\* full and whose k-th window it answers with r bytes, fewer than asked for,
\* returns 0 after k exchanges with args->len = 4096 * (k-1) + r
C3_GetLogShort ==
    (/\ GetLogCall("short")
     /\ op.device.k <= Windows(op.resp_size)
     /\ op.device.r < WindowSize(op.resp_size, op.device.k)
     /\ Returned) =>
        /\ ret.rc = 0
        /\ Len(log) = op.device.k
        /\ out.len = xfer_size * (op.device.k - 1) + op.device.r

\* the six length checks, on the lengths of a request and a response frame
SixChecks(rqh, rqd, rsh, rsd) ==
    /\ rqh >= 4 /\ rqh % 4 = 0 /\ rqd % 4 = 0
    /\ rsh >= 4 /\ rsh % 4 = 0 /\ rsd % 4 = 0

\* C4: a frame pair is handed to the transport only when the six length
\* checks hold; a call of nvme_mi_submit with a pair that fails one returns
\* -1 with EINVAL, without a transport call, a MIC on the request, or I/O
C4_ChecksBeforeTransport ==
    /\ pc \in {"send", "poll"} =>
          SixChecks(req.hdr_len, req.data_len, resp.hdr_len, resp.data_len)
    /\ \A i \in 1 .. Len(log) :
          SixChecks(log[i].req.hdr_len, log[i].req.data_len,
                    log[i].resp.hdr_len, log[i].resp.data_len)
    /\ (/\ op.kind = "nvme_mi_submit"
        /\ ~SixChecks(op.rq_hdr, op.req_size, op.rs_hdr, op.resp_size)) =>
          /\ Returned
          /\ ret = EInval
          /\ NoIO
          /\ ~req.mic.stamped
          /\ cnt = NoCnt

C4_Witness ==
    /\ Returned
    /\ op.kind = "nvme_mi_submit"
    /\ op.rq_hdr = 16 /\ op.req_size = 0 /\ op.rs_hdr = 8 /\ op.resp_size = 2
    /\ ret = EInval
    /\ io.transport = 0

\* the exchange just finished: the transport returned a response whose MIC
\* is not the CRC of the bytes before it
MicMismatch ==
    /\ cnt.state = "returned"
    /\ cnt.exit = "received"
    /\ ~dg.micOk

\* the exchange just finished: the device sent all that was asked for, as a
\* response for slot 0 with its MIC
WellFormedExchange ==
    /\ cnt.state = "returned"
    /\ cnt.exit = "received"
    /\ Len(log) >= 1
    /\ dg = GoodReply(log[Len(log)].resp, log[Len(log)].resp.data_len)

\* C5: when the MIC of a received response does not match, nvme_mi_submit
\* reports failure and the call returns it; the socket is still open, the
\* endpoint still in its root, the tag of the exchange released; and the
\* exchange after such a failure succeeds when the device answers well
C5_MicMismatchRecoverable ==
    /\ MicMismatch =>
          /\ Returned
          /\ ret.rc # 0
          /\ log[Len(log)].answer = "failed"
          /\ ep.sd_open
          /\ ep.in_root
          /\ HasPrealloc(tag) => TagNumber(tag) \notin kernelTags
          /\ cnt.drop = cnt.alloc
    /\ (prev.micFail /\ WellFormedExchange) =>
          /\ log[Len(log)].answer = "data"
          /\ (Returned /\ op.kind = "nvme_mi_submit") => ret.rc = 0

C5_Witness ==
    /\ prev.micFail
    /\ WellFormedExchange
    /\ Returned
    /\ op.kind = "nvme_mi_submit"
    /\ HasPrealloc(tag)
    /\ ret.rc = 0

\* C6: a call returns a positive value only when the transport exchange
\* succeeded and the status byte of the response is not zero, and the value
\* is the status byte; a failure the library detects returns a negative one
C6_PositiveIsStatus ==
    /\ (Returned /\ ret.rc > 0) =>
          /\ cnt.state = "returned"
          /\ cnt.exit = "received"
          /\ dg.micOk
          /\ resp.status # 0
          /\ ret.rc = resp.status
    /\ (Returned /\ (io.micFail \/ ret.errno # "unset")) => ret.rc < 0

\* the arguments of nvme_mi_admin_xfer that C7 names
XferBidirectional == op.req_size > 0 /\ op.resp_size > 0
XferOffsetWithoutData == ~WideIsZero(op.offset) /\ op.resp_size = 0
XferOffsetUnaligned == op.offset.lo % 4 # 0

\* C7: nvme_mi_admin_xfer with request and response data together, with an
\* offset and no response data, or with an offset that is not a multiple of
\* 4 returns -1 with EINVAL, without a transport call, a tag or a send, and
\* leaves *resp_data_size as it was
C7_XferInvalidArgs ==
    (/\ op.kind = "nvme_mi_admin_xfer"
     /\ XferBidirectional \/ XferOffsetWithoutData \/ XferOffsetUnaligned) =>
        /\ Returned
        /\ ret = EInval
        /\ NoIO
        /\ cnt = NoCnt
        /\ out.len = op.resp_size

C7_Witness ==
    /\ Returned
    /\ op.kind = "nvme_mi_admin_xfer"
    /\ op.req_size = 8 /\ op.resp_size = 8 /\ WideIsZero(op.offset)
    /\ ret = EInval
    /\ io.sends = 0
    /\ out.len = 8

AdminKinds ==
    {"nvme_mi_admin_xfer", "nvme_mi_admin_identify_partial",
     "nvme_mi_admin_get_log", "nvme_mi_admin_security_send",
     "nvme_mi_admin_security_recv"}

\* C8: every exchange of an Admin command that reaches the transport has a
\* request payload and a response payload of at most 4096 bytes
C8_AdminPayloadLimit ==
    op.kind \in AdminKinds =>
        \A i \in 1 .. Len(log) :
            /\ log[i].req.data_len <= 4096
            /\ log[i].resp.data_len <= 4096

IdentifyCall == op.kind = "nvme_mi_admin_identify_partial" /\ op.args_ok

\* 0 < size <= 0xffffffff, offset <= 0xffffffff, offset a multiple of 4
IdentifyArgsValid ==
    /\ ~WideIsZero(op.size)
    /\ ~WideGt(op.size, Wide(3, B30 - 1))
    /\ ~WideGt(op.offset, Wide(3, B30 - 1))
    /\ op.offset.lo % 4 = 0

\* C9: nvme_mi_admin_identify_partial with a size or an offset outside the
\* constraints returns -1 with EINVAL before any I/O; a request it hands on
\* has flags 0x1 when the offset is 0 and 0x3 otherwise
C9_IdentifyConstraints ==
    /\ (IdentifyCall /\ ~IdentifyArgsValid) =>
          Returned /\ ret = EInval /\ NoIO
    /\ IdentifyCall =>
          \A i \in 1 .. Len(log) :
              log[i].req.flags = IF WideIsZero(op.offset) THEN 1 ELSE 3

\* the exchange of the Identify call succeeded with status 0
IdentifyAnswered ==
    /\ IdentifyCall
    /\ Returned
    /\ Len(log) = 1
    /\ log[1].answer = "data"

\* C10: when the exchange of an Identify call succeeds with status 0 and the
\* payload received is not size bytes long, the call returns -1 with EPROTO;
\* it returns 0 only when size bytes were received
C10_IdentifyAllOrNothing ==
    /\ (IdentifyAnswered /\ log[1].bytes # WideVal(op.size)) =>
          ret = [rc |-> 0 - 1, errno |-> "EPROTO"]
    /\ (IdentifyCall /\ Returned /\ ret.rc = 0) =>
          /\ Len(log) = 1
          /\ log[1].answer = "data"
          /\ log[1].bytes = WideVal(op.size)

C10_Witness ==
    /\ IdentifyAnswered
    /\ op.size = Wide(0, 4096)
    /\ log[1].bytes = 2048
    /\ ret = [rc |-> 0 - 1, errno |-> "EPROTO"]

\* the length the caller passed in: *resp_data_size, args->len,
\* args->data_len, or the size of the structure to read
CallerLen ==
    CASE op.kind \in {"nvme_mi_admin_security_send"} -> op.req_size
      [] op.kind \in {"nvme_mi_admin_identify_partial", "nvme_mi_mi_config_get",
                      "nvme_mi_mi_config_set"} -> 0
      [] OTHER -> op.resp_size

\* the last exchange of the call succeeded and its response has a status
\* byte that is not zero
StatusAnswered ==
    /\ Returned
    /\ Len(log) >= 1
    /\ log[Len(log)].answer = "status"

StatusReturned ==
    /\ ret.rc = resp.status
    /\ ret.rc > 0
    /\ ~out.result
    /\ out.len = CallerLen

MiKinds ==
    {"nvme_mi_mi_read_mi_data_subsys", "nvme_mi_mi_read_mi_data_ctrl_list",
     "nvme_mi_mi_config_get", "nvme_mi_mi_config_set"}

\* C11 as stated: every Admin and MI command, the generic Admin transfer
\* among them, returns a non-zero status byte of a successful exchange as
\* its value and writes neither the result slot nor the output length
C11_StatusVerbatimAll ==
    (StatusAnswered /\ op.kind \in AdminKinds \cup MiKinds) => StatusReturned

\* C11: every Admin and MI command the library builds (Identify, Get Log
\* Page, Security Send and Receive, Read MI Data, Configuration Get and Set)
\* returns a non-zero status byte of a successful exchange as its value and
\* writes neither the result slot nor the output length; the result slot is
\* written only after an exchange whose status byte is 0
C11_StatusVerbatim ==
    /\ (/\ StatusAnswered
        /\ op.kind \in (AdminKinds \cup MiKinds) \ {"nvme_mi_admin_xfer"}) =>
          StatusReturned
    /\ out.result =>
          /\ Len(log) >= 1
          /\ log[Len(log)].answer = "data"
          /\ resp.status = 0

C11_Witness ==
    /\ StatusAnswered
    /\ op.kind = "nvme_mi_mi_read_mi_data_subsys"
    /\ ret.rc = 2
    /\ out.len = SubsysInfoLen

\* C18: the MIC of every request handed to the transport is the CRC of the
\* header and payload bytes that are sent, also for nvme_mi_admin_xfer,
\* which writes flags, dlen and doff after its own MIC computation: the
\* sent bytes pass nvme_mi_verify_resp_mic
C18_MicRoundTrip ==
    /\ pc \in {"send", "poll"} => nvme_mi_verify_resp_mic(FedBack(req)) = 0
    /\ \A i \in 1 .. Len(log) :
          nvme_mi_verify_resp_mic(FedBack(log[i].req)) = 0

C18_Witness ==
    /\ op.kind = "nvme_mi_admin_xfer"
    /\ pc = "poll"
    /\ cnt.send = 1
    /\ req.flags = 3 /\ req.dlen = 8
    /\ nvme_mi_verify_resp_mic(FedBack(req)) = 0

\* a More Processing Required response was received and the wait restarts
MprStep == pc = "poll" /\ cnt'.mpr = cnt.mpr + 1

\* after More Processing Required responses, the device's full response for
\* slot 0 with its MIC is received
MprThenResponse ==
    /\ pc = "poll"
    /\ cnt.mpr >= 1
    /\ cnt'.state = "returned"
    /\ dg' = GoodReply(resp, resp.data_len)

\* C20: in one call of nvme_mi_mctp_submit the request is sent once and one
\* tag is used, however many More Processing Required responses arrive: a
\* step that receives one neither drops nor allocates a tag nor sends, and
\* when the real response follows, the exchange succeeds and the tag has
\* been released once
C20_MprOneTag ==
    [][/\ pc = "poll" =>
             /\ cnt.send = 1 /\ cnt.alloc = 1 /\ cnt.drop = 0
             /\ HasPrealloc(tag) => TagNumber(tag) \in kernelTags
       /\ MprStep =>
             /\ pc' = "poll"
             /\ tag' = tag
             /\ kernelTags' = kernelTags
             /\ cnt'.send = cnt.send /\ cnt'.alloc = cnt.alloc
             /\ cnt'.drop = cnt.drop
             /\ io'.sends = io.sends /\ io'.allocs = io.allocs
             /\ io'.drops = io.drops
       /\ MprThenResponse =>
             /\ cnt'.exit = "received"
             /\ cnt'.send = 1 /\ cnt'.alloc = 1 /\ cnt'.drop = 1
             /\ tag' = tag
             /\ HasPrealloc(tag) => TagNumber(tag) \notin kernelTags'
             /\ log'[Len(log')].answer = "data"
             /\ op.kind = "nvme_mi_submit" => (pc' = "returned" /\ ret'.rc = 0)
      ]_vars

C20_Witness ==
    /\ Returned
    /\ op.kind = "nvme_mi_submit"
    /\ cnt.mpr >= 1
    /\ cnt.exit = "received"
    /\ HasPrealloc(tag)
    /\ cnt.drop = 1
    /\ ret.rc = 0

\* a step in which nvme_mi_scan_ep(e, force) returns
ScanReturns(e, force) ==
    /\ mi'.last.op = "nvme_mi_scan_ep"
    /\ mi'.last.ep = e
    /\ mi'.last.force = force
    /\ ~mi'.crashed

\* the controllers of e that the controller list read just made
FromThisRead(e) ==
    \A i \in 1 .. Len(mi'.eps[e].ctrls) : mi'.eps[e].ctrls[i].obj = mi'.reads

\* C12: a scan of a scanned endpoint without force returns 0, reads no
\* controller list and leaves the endpoints and their controllers as they
\* are; with force it reads the list again and no controller of before the
\* call is left: whatever controllers the endpoint has afterwards were made
\* for this read
C12_ScanOnceUnlessForced ==
    [][\A e \in Handles :
          /\ (mi.eps[e].scanned /\ ScanReturns(e, FALSE)) =>
                /\ mi'.last.rc = 0
                /\ mi'.reads = mi.reads
                /\ mi'.eps = mi.eps
                /\ mi'.list = mi.list
          /\ (mi.eps[e].scanned /\ ScanReturns(e, TRUE)) =>
                /\ mi'.reads = mi.reads + 1
                /\ FromThisRead(e)]_vars

\* a forced scan succeeded on the second read and made controllers
C12_Witness ==
    /\ mi.last.op = "nvme_mi_scan_ep"
    /\ mi.last.force
    /\ mi.last.rc = 0
    /\ mi.reads = 2
    /\ mi.last.ep \in Handles
    /\ mi.eps[mi.last.ep].ctrls # <<>>
    /\ \E e \in Handles : mi.eps[e].scanned

\* the non-zero identifiers among the first num entries of the list
Listed(reply) ==
    SelectSeq(SubSeq(reply.ids, 1,
                     IF reply.num < Len(reply.ids) THEN reply.num
                     ELSE Len(reply.ids)),
              LAMBDA id : id # 0)

\* the identifiers of the controllers, in the order of the list
CtrlIds(ctrls) == [i \in 1 .. Len(ctrls) |-> ctrls[i].id]

\* C13: a scan of an unscanned endpoint that returns 0 leaves exactly one
\* controller for each non-zero identifier among the first num entries of
\* the list it read, in the order of the list; a list whose num is over
\* NVME_ID_CTRL_LIST_MAX makes it fail with EPROTO and no controller
C13_ScanCreatesControllers ==
    [][\A e \in Handles :
          (~mi.eps[e].scanned /\ (ScanReturns(e, FALSE) \/ ScanReturns(e, TRUE))) =>
             /\ mi'.last.rc = 0 =>
                   CtrlIds(mi'.eps[e].ctrls) = Listed(mi'.last.reply)
             /\ (mi'.last.reply.rc = 0
                   /\ mi'.last.reply.num > NVME_ID_CTRL_LIST_MAX) =>
                   /\ mi'.last.rc # 0
                   /\ mi'.last.errno = "EPROTO"
                   /\ mi'.eps[e].ctrls = <<>>]_vars

\* the endpoints root->endpoints links, and those ever opened
Linked(m) == {m.list[i] : i \in 1 .. Len(m.list)}
Opened(m) == {e \in 1 .. Len(m.eps) : m.eps[e].transport # "none"}

\* the endpoint was closed, once: no controller left, the transport's close
\* called once (the socket closed), the endpoint freed once and unlinked
ClosedOnce(m, e) ==
    /\ m.eps[e].ctrls = <<>>
    /\ m.eps[e].closes = 1
    /\ m.eps[e].transport = "mctp" => m.eps[e].sd = "closed"
    /\ m.eps[e].frees = 1
    /\ e \notin Linked(m)

\* C14: nvme_mi_close leaves the endpoint closed once; nvme_mi_free_root
\* returns with every endpoint that was opened closed once; and nothing is
\* closed or freed twice
C14_ClosedExactlyOnce ==
    /\ \A e \in 1 .. Len(mi.eps) :
          mi.eps[e].closes <= 1 /\ mi.eps[e].frees <= 1
    /\ mi.last.op = "nvme_mi_close" => ClosedOnce(mi, mi.last.ep)
    /\ mi.last.op = "nvme_mi_free_root" =>
          /\ ~mi.crashed
          /\ mi.root = "freed"
          /\ \A e \in Opened(mi) : ClosedOnce(mi, e)

\* the live MCTP endpoints of the root with the pair (net, eid)
WithPair(m, pair) ==
    {e \in Linked(m) : /\ m.eps[e].alive
                       /\ m.eps[e].transport = "mctp"
                       /\ <<m.eps[e].net, m.eps[e].eid>> = pair}

\* C15: nvme_mi_mctp_add(root, net, eid) never makes a second endpoint for
\* a pair, and when the root has an endpoint with the pair it returns 0 and
\* leaves the endpoints, their sockets and the collection as they are
C15_AddIdempotent ==
    [][mi'.last.op = "nvme_mi_mctp_add" =>
         /\ Cardinality(WithPair(mi, mi'.last.pair)) <= 1 =>
               Cardinality(WithPair(mi', mi'.last.pair)) <= 1
         /\ WithPair(mi, mi'.last.pair) # {} =>
               /\ ~mi'.crashed
               /\ mi'.last.rc = 0
               /\ mi'.eps = mi.eps
               /\ mi'.list = mi.list]_vars

\* the live endpoints of the root, in the order they were created in
RECURSIVE CreationOrder(_, _)
CreationOrder(m, e) ==
    IF e > Len(m.eps) THEN <<>>
    ELSE (IF m.eps[e].alive /\ m.eps[e].transport # "none" THEN <<e>> ELSE <<>>)
         \o CreationOrder(m, e + 1)

\* C16: nvme_mi_first_endpoint and nvme_mi_next_endpoint visit the live
\* endpoints of the root in the order they were created in, each once
C16_InsertionOrder ==
    (mi.root = "live" /\ ~mi.crashed) =>
        SelectSeq(nvme_mi_first_endpoint(mi), LAMBDA e : mi.eps[e].alive)
            = CreationOrder(mi, 1)

\* a step in which nvme_mi_ep_set_timeout(e, t) returns
SetTimeoutReturns(e) ==
    /\ mi'.last.op = "nvme_mi_ep_set_timeout"
    /\ mi'.last.ep = e

\* C17: nvme_mi_init_ep returns an endpoint with timeout 1000 and mprt_max
\* 0, nvme_mi_open_mctp one with timeout 5000; nvme_mi_ep_set_timeout
\* returns 0 with the new timeout stored, or, only on a transport whose
\* check_timeout rejects, the transport's error with the timeout as it was
C17_TimeoutDefaults ==
    [][/\ (mi'.last.op = "nvme_mi_init_ep" /\ mi'.last.ep # 0) =>
             /\ mi'.eps[mi'.last.ep].timeout = 1000
             /\ mi'.eps[mi'.last.ep].mprt_max = 0
       /\ (mi'.last.op = "nvme_mi_open_mctp" /\ mi'.last.ep # 0) =>
             mi'.eps[mi'.last.ep].timeout = 5000
       /\ \A e \in Handles :
             SetTimeoutReturns(e) =>
                /\ mi'.last.rc = 0 => mi'.eps[e].timeout = mi'.last.t
                /\ mi'.last.rc = mi'.last.chk
                /\ mi'.last.rc # 0 =>
                      /\ mi.eps[e].has_check
                      /\ mi'.eps[e].timeout = mi.eps[e].timeout]_vars

\* a timeout was rejected: the endpoint of the call has a check_timeout,
\* the call returned an error and the timeout is not the one asked for
C17_Witness ==
    /\ mi.last.op = "nvme_mi_ep_set_timeout"
    /\ mi.last.rc # 0
    /\ mi.eps[mi.last.ep].has_check
    /\ mi.eps[mi.last.ep].timeout # mi.last.t

\* the value of the 16 bits of w from bit lo on
RECURSIVE Half(_, _, _)
Half(w, lo, n) == IF n = 0 THEN 0 ELSE w[lo] + 2 * Half(w, lo + 1, n - 1)

\* a word as its two 16-bit halves, the high one first
Halves(w) == <<Half(w, 17, 16), Half(w, 1, 16)>>

\* x XOR y on n-bit numbers
RECURSIVE XorN(_, _, _)
XorN(x, y, n) ==
    IF n = 0 THEN 0
    ELSE ((x + y) % 2) + 2 * XorN(x \div 2, y \div 2, n - 1)

\* (a >> 1) XOR (0x82F63B78 if the low bit was 1 else 0), on halves
ShiftXor(a) ==
    LET hi == a[1] \div 2
        lo == (a[2] \div 2) + 32768 * (a[1] % 2)
    IN  IF a[2] % 2 = 1
        THEN <<XorN(hi, 33526, 16), XorN(lo, 15224, 16)>>
        ELSE <<hi, lo>>

\* a XOR byte, then 8 steps
FoldByte(a, b) ==
    LET a0 == <<a[1], XorN(a[2], b, 16)>>
    IN  ShiftXor(ShiftXor(ShiftXor(ShiftXor(
        ShiftXor(ShiftXor(ShiftXor(ShiftXor(a0))))))))

RECURSIVE FoldSpan(_, _)
FoldSpan(a, s) == IF s = <<>> THEN a ELSE FoldSpan(FoldByte(a, Head(s)), Tail(s))

\* C19: nvme_mi_crc32_update over h and then over p gives what it gives
\* over h followed by p; over no bytes it gives the accumulator back; it
\* folds each byte as a XOR byte and 8 steps of (a >> 1) XOR (0x82F63B78 if
\* the low bit was 1 else 0) on 32 bits; and the MIC of a request is the
\* complement of the update of 0xFFFFFFFF over h and then p
C19_CrcComposes ==
    /\ crc.pc = "hdr" =>
          /\ crc.h = <<>> => crc.acc = crc.a
          /\ Halves(crc.acc) = FoldSpan(Halves(crc.a), crc.h)
    /\ crc.pc = "data" =>
          /\ crc.acc = nvme_mi_crc32_update(crc.a, crc.h \o crc.p)
          /\ Halves(crc.acc) = FoldSpan(Halves(crc.a), crc.h \o crc.p)
    /\ crc.pc = "mic" =>
          LET c == FoldSpan(FoldSpan(<<65535, 65535>>, crc.h), crc.p)
          IN  Halves(crc.mic) = <<65535 - c[1], 65535 - c[2]>>

\* the update over a header and then a payload, both with bytes in them
C19_Witness ==
    /\ crc.pc = "data"
    /\ crc.h # <<>>
    /\ crc.p # <<>>
    /\ crc.acc # crc.a

\* the transport waits for the response after a More Processing Required
\* response, which is the datagram dg
WaitsAfterMpr == pc = "poll" /\ cnt.mpr > 0

\* C21: the wait after a More Processing Required response with the value
\* mprt is mprt * 100 ms when mprt > 0, else the endpoint's timeout when
\* that is > 0, else 0xFFFF; and no more than the endpoint's mprt_max when
\* that is > 0.  It is never the unbounded wait.
C21_MprWait ==
    WaitsAfterMpr =>
        LET t == IF dg.mprt > 0 THEN dg.mprt * 100
                 ELSE IF ep.timeout > 0 THEN ep.timeout
                 ELSE 65535
        IN  /\ timeout = IF ep.mprt_max > 0 THEN Min(t, ep.mprt_max) ELSE t
            /\ timeout > 0

\* an mprt of 5 cut down to the endpoint's maximum of 300 ms
C21_Witness ==
    /\ WaitsAfterMpr
    /\ dg.mprt = 5
    /\ ep.mprt_max = 300
    /\ timeout = 300

\* the API call returned and its last transport call ended as exit says
LastTransportExit(exit) == pc = "returned" /\ cnt.exit = exit

\* C22: a datagram of total length L (type byte restored) that the
\* transport hands on has L >= 12 and L % 4 = 0, and leaves the response
\* frame with hdr_len + data_len + 4 = L, neither length larger than the
\* caller made it, and the last four bytes received as its MIC; a datagram
\* with L < 12 or L % 4 # 0 fails the call with EPROTO
C22_Reconciliation ==
    LET L == dg.len + 1
        sized == log[Len(log)].resp
    IN  /\ LastTransportExit("received") =>
              /\ L >= 12 /\ L % 4 = 0
              /\ resp.hdr_len + resp.data_len + 4 = L
              /\ resp.hdr_len <= sized.hdr_len
              /\ resp.data_len <= sized.data_len
              /\ resp.mic = WordAt(dg, L - 4)
        /\ (pc = "returned" /\ cnt.state = "returned" /\ dg.len > 0
              /\ (L < 12 \/ L % 4 # 0)) =>
              /\ cnt.exit \in {"too_short", "unaligned"}
              /\ ret.rc = 0 - 1
              /\ ret.errno = "EPROTO"

\* a datagram that ends inside the header buffer: both lengths shrink
C22_Witness ==
    /\ LastTransportExit("received")
    /\ resp.hdr_len < log[Len(log)].resp.hdr_len
    /\ resp.data_len < log[Len(log)].resp.data_len
    /\ resp.mic = CrcOfPrefix(dg.len + 1 - 4)

\* the call returned and nvme_mi_submit returned 0 for its last exchange
LastSubmitSucceeded ==
    /\ pc = "returned"
    /\ log # <<>>
    /\ log[Len(log)].answer \in {"status", "data"}

\* C23: when nvme_mi_submit returns 0 the response as the transport placed
\* it has a header of at least the minimal size, the NVMe-MI type byte,
\* the ROR bit set, the command slot bit of the request, and a MIC that is
\* the CRC of its header and data
C23_ResponseChecks ==
    LastSubmitSucceeded =>
        /\ resp.hdr_len >= MsgHdrLen
        /\ resp.type = MCTP_TYPE_NVME + MCTP_TYPE_MIC
        /\ (resp.nmp \div 128) % 2 = 1
        /\ resp.nmp % 2 = req.nmp % 2
        /\ resp.mic = CrcOfPrefix(resp.hdr_len + resp.data_len)

\* a response for the other command slot with a good MIC was rejected
C23_Witness ==
    /\ pc = "returned"
    /\ cnt.exit = "received"
    /\ dg.micOk
    /\ (dg.nmp \div 128) % 2 = 1
    /\ dg.nmp % 2 # req.nmp % 2
    /\ ret.rc = 0 - 1
    /\ ret.errno = "EIO"

\* the exchanges of a Get Log Page call, as they reached the transport
GetLogExchanges ==
    IF op.kind = "nvme_mi_admin_get_log" THEN 1 .. Len(log) ELSE {}

\* the window of the i-th exchange is the last one of the log: its offset
\* and its size reach the length the caller asked for
FinalWindow(i) == log[i].req.doff + log[i].req.dlen >= op.resp_size

WaitBudget ==
    IF cnt.mpr > 0
    THEN LET t == IF dg.mprt > 0 THEN dg.mprt * 100
                  ELSE IF ep.timeout > 0 THEN ep.timeout ELSE 65535
         IN  IF ep.mprt_max > 0 THEN Min(t, ep.mprt_max) ELSE t
    ELSE ep.timeout

\* C25: across the EINTR restarts of one wait for a response the time
\* waited in poll never exceeds the budget in force, during the wait and
\* when the wait ends with TIMEOUT
C25_EintrWithinBudget ==
    /\ (pc = "poll" /\ timeout > 0) => cnt.waited <= timeout
    /\ LastTransportExit("timeout") =>
           /\ cnt.waited <= WaitBudget
           /\ ret.errno = "ETIMEDOUT"

\* C26: a datagram that answers a request whose submit returned TIMEOUT is
\* never the successful response of a later submit on the endpoint
C26_NoLateResponse == LastSubmitSucceeded => ~cnt.late

\* C27: a call of nvme_mi_open_mctp that returns NULL leaves the endpoint
\* list of the root exactly as it was, and the list links no freed endpoint
C27_FailedOpenLeavesRoot ==
    [][(mi'.last.op = "nvme_mi_open_mctp" /\ mi'.last.ep = 0) =>
          /\ mi'.list = mi.list
          /\ \A e \in Linked(mi') : mi'.eps[e].alive]_vars

\* C28: a scan that returns an error, forced or not, leaves the
\* controllers of the endpoint and its controllers_scanned flag as they
\* were before the call
C28_FailedScanKeepsControllers ==
    [][\A e \in Handles :
          ((ScanReturns(e, FALSE) \/ ScanReturns(e, TRUE)) /\ mi'.last.rc # 0) =>
              /\ mi'.eps[e].ctrls = mi.eps[e].ctrls
              /\ mi'.eps[e].scanned = mi.eps[e].scanned]_vars

\* the response frame of the exchange under way is one nvme_mi_submit
\* accepts and its callers build: a header of 8 or more bytes, header and
\* payload sizes multiples of 4, and no data buffer when the payload size
\* is 0
AcceptedRespFrame ==
    /\ log # <<>>
    /\ LET rs == log[Len(log)].resp
       IN  /\ rs.hdr_len >= 8
           /\ rs.hdr_len % 4 = 0
           /\ rs.data_len % 4 = 0
           /\ rs.data_len = 0 => ~rs.has_data

\* the datagram received last is a More Processing Required response: 12
\* bytes, the MPR status, and the CRC of its first 8 bytes as its last 4
IsMprDatagram ==
    /\ dg.len + 1 = 12
    /\ dg.status = NVME_MI_RESP_MPR
    /\ dg.micOk

\* C29: for every accepted response frame the transport takes a datagram
\* as More Processing Required exactly when it is one, and the detection
\* never reads through an absent data buffer
C29_MprDetectionDefined ==
    AcceptedRespFrame =>
        /\ pc # "crashed"
        /\ WaitsAfterMpr => IsMprDatagram
        /\ LastTransportExit("received") => ~IsMprDatagram

\* C30: on an endpoint with a timeout above 0, with finitely many EINTR
\* and finitely many More Processing Required responses, every call of
\* nvme_mi_mctp_submit that waits for a response returns
C30_SubmitReturns ==
    (cnt.state = "running" /\ ep.timeout > 0) ~> (cnt.state = "returned")

====
